---- MODULE Spec2Model ----
(***************************************************************************)
(* Model of the plugin update workflow of minecraft-plugin-manager:        *)
(* check_for_updates -> download_all_updates -> deploy_all_updates         *)
(* (preflight, compatibility gate, per-pair deploy_to_server, restart,     *)
(* verification, update_deployment_state / save_deployment_state).         *)
(*                                                                         *)
(* Strings that the code takes apart (version strings) are sequences of    *)
(* one-character strings.  A file name is the sequence of its              *)
(* dot-separated components, the last one being the extension.             *)
(***************************************************************************)
EXTENDS Naturals, Sequences, FiniteSets, TLC

VARIABLES
    dry_run,              \* MinecraftPluginUpdater.dry_run / DeploymentManager.dry_run
    force,                \* MinecraftPluginUpdater.force
    manifest,             \* self.manifest["plugins"][p]["version"] (NoVersion when missing)
    stateFile,            \* DEPLOYMENT_STATE_FILE on disk
    stateFile0,           \* its content when the process started (history)
    deployment_state,     \* self.deployment_state, the in-memory copy
    updates_available,    \* self.updates_available: plugin -> candidate
    downloads,            \* downloads dict of download_all_updates, in insertion order
    remote,               \* per server: the plugins directory, file name -> content
    pc,                   \* position of the workflow
    result,               \* how the run ended
    preflight_ok,         \* first component of run_preflight_checks()
    preflight_issues,     \* second component
    plugins_to_deploy,    \* list(downloads.keys())
    ci,                   \* loop index of check_infrastructure_compatibility
    velocity_build,       \* local of check_infrastructure_compatibility
    compatibility_issues, \* local of check_infrastructure_compatibility
    compatible,           \* first component of its result
    pi,                   \* index of the plugin loop of deploy_all_updates
    si,                   \* index of the target-server loop
    success_count,        \* local of deploy_all_updates
    deployment_success,   \* dict server -> [plugins], in insertion order
    probe_stdout,         \* result.stdout of the existence probe of deploy_to_server
    ri,                   \* index of the restart loop
    trace,                \* the external calls made so far in this run (history)
    rs,                   \* rollback_deployment: index of the server loop
    backup_files,         \* rollback_deployment: the listing of the current server
    bi,                   \* rollback_deployment: index into backup_files[:10]
    rollback_success,     \* rollback_deployment: dict server -> [files], in insertion order
    rk,                   \* rollback_deployment: index of its restart loop
    inconsistencies,      \* the result of check_version_consistency
    inventory,            \* the SERVERS dict that check_version_consistency reads
    lookups,              \* check_for_updates: latest_info of each plugin (history)
    local_fs,             \* DOWNLOADS_DIR on the local disk
    args,                 \* the arguments of the call of a function run on its own
    ret,                  \* what that call returned
    procs                 \* orchestrator processes running side by side

vars == <<dry_run, force, manifest, stateFile, stateFile0, deployment_state,
          updates_available, downloads, remote, pc, result, preflight_ok,
          preflight_issues, plugins_to_deploy, ci, velocity_build,
          compatibility_issues, compatible, pi, si, success_count,
          deployment_success, probe_stdout, ri, trace, rs, backup_files, bi,
          rollback_success, rk, inconsistencies, inventory, lookups, local_fs,
          args, ret, procs>>

\* the variables of rollback_deployment and of check_version_consistency
otherVars == <<rs, backup_files, bi, rollback_success, rk, inconsistencies, inventory,
               local_fs, args, ret, procs>>

----------------------------------------------------------------------------
(* Generic helpers: Python dict and list operations.                       *)

EmptyMap == [x \in {} |-> x]

\* d[k] = v on a dict modelled as a function
MapPut(d, k, v) == [x \in (DOMAIN d) \cup {k} |-> IF x = k THEN v ELSE d[x]]

Range(s) == {s[i] : i \in DOMAIN s}

\* the elements of s from position i on that are in keep, order kept
RECURSIVE SelectFrom(_, _, _)
SelectFrom(s, i, keep) ==
    IF i > Len(s) THEN <<>>
    ELSE (IF s[i] \in keep THEN <<s[i]>> ELSE <<>>) \o SelectFrom(s, i + 1, keep)

----------------------------------------------------------------------------
(* config.py                                                               *)

SERVERS ==
    << [name |-> "minecraft-proxy-0", uuid |-> "b57a0213", platform |-> "velocity"],
       [name |-> "minecraft-paper-0", uuid |-> "2f3ff273", platform |-> "paper"],
       [name |-> "minecraft-lobby-0", uuid |-> "4178f798", platform |-> "paper"] >>

ServerNames == {SERVERS[i].name : i \in DOMAIN SERVERS}

ServerConfig(s) == CHOOSE c \in Range(SERVERS) : c.name = s

MANAGED_PLUGINS ==
    << [name |-> "ViaVersion", source |-> "modrinth", project |-> "viaversion",
        artifact |-> "", platforms |-> {"velocity", "paper"}],
       [name |-> "Geyser-Velocity", source |-> "geyser", project |-> "geyser",
        artifact |-> "velocity", platforms |-> {"velocity"}],
       [name |-> "floodgate-velocity", source |-> "geyser", project |-> "floodgate",
        artifact |-> "velocity", platforms |-> {"velocity"}],
       [name |-> "floodgate-spigot", source |-> "geyser", project |-> "floodgate",
        artifact |-> "spigot", platforms |-> {"paper"}],
       [name |-> "LuckPerms-Bukkit", source |-> "modrinth", project |-> "Vebnzrzj",
        artifact |-> "", platforms |-> {"paper"}],
       [name |-> "LuckPerms-Velocity", source |-> "modrinth", project |-> "Vebnzrzj",
        artifact |-> "", platforms |-> {"velocity"}],
       [name |-> "PlaceholderAPI", source |-> "modrinth", project |-> "PlaceholderAPI",
        artifact |-> "", platforms |-> {"paper"}] >>

PluginNames == {MANAGED_PLUGINS[i].name : i \in DOMAIN MANAGED_PLUGINS}

PluginConfig(p) == CHOOSE c \in Range(MANAGED_PLUGINS) : c.name = p

\* the catalog's plugin names in catalog order
PluginOrder == [i \in DOMAIN MANAGED_PLUGINS |-> MANAGED_PLUGINS[i].name]

COMPATIBILITY_MATRIX ==
    [p \in {"Geyser-Velocity", "floodgate-velocity"} |->
        [velocity |-> [min_build |-> IF p = "Geyser-Velocity" THEN 500 ELSE 400]]]

----------------------------------------------------------------------------
(* api_clients.py: version strings and source lookups                      *)

Digits == {"0", "1", "2", "3", "4", "5", "6", "7", "8", "9"}

BuildWord == <<"-", "b", "u", "i", "l", "d">>

\* does the word w occur in s at position i
OccursAt(s, i, w) ==
    /\ i + Len(w) - 1 <= Len(s)
    /\ \A k \in 1..Len(w) : s[i + k - 1] = w[k]

\* the end of the run of digits of s that starts at position i (i - 1 if none)
RECURSIVE DigitRunEnd(_, _)
DigitRunEnd(s, i) ==
    IF i <= Len(s) /\ s[i] \in Digits THEN DigitRunEnd(s, i + 1) ELSE i - 1

\* re.sub(r'-build(\d+)', r'-b\1', version), scanning from position i
RECURSIVE SubBuild(_, _)
SubBuild(s, i) ==
    IF i > Len(s) THEN <<>>
    ELSE IF OccursAt(s, i, BuildWord) /\ DigitRunEnd(s, i + Len(BuildWord)) >= i + Len(BuildWord)
         THEN <<"-", "b">> \o SubSeq(s, i + Len(BuildWord), DigitRunEnd(s, i + Len(BuildWord)))
                \o SubBuild(s, DigitRunEnd(s, i + Len(BuildWord)) + 1)
         ELSE <<s[i]>> \o SubBuild(s, i + 1)

\* fault variant: only the first occurrence is rewritten (count=1)
RECURSIVE SubBuildFirst(_, _)
SubBuildFirst(s, i) ==
    IF i > Len(s) THEN <<>>
    ELSE IF OccursAt(s, i, BuildWord) /\ DigitRunEnd(s, i + Len(BuildWord)) >= i + Len(BuildWord)
         THEN <<"-", "b">> \o SubSeq(s, i + Len(BuildWord), Len(s))
         ELSE <<s[i]>> \o SubBuildFirst(s, i + 1)

normalize_version_First(version) == SubBuildFirst(version, 1)

normalize_version(version) == SubBuild(version, 1)

\* GeyserAPIClient.check_updates on the API's {version, build}
GeyserInfo(project, artifact, version, build) ==
    [version  |-> version \o <<"-", "b">> \o build,
     filename |-> << <<project, artifact, version, build>>, "jar" >>]

\* ModrinthAPIClient.check_updates: version_number and files[0].filename of
\* the selected entry, both given by the API
ModrinthInfo(version_number, filename) ==
    [version |-> version_number, filename |-> filename]

----------------------------------------------------------------------------
(* The environment: what the registries can answer, what is on disk and on *)
(* the servers when the process starts.                                    *)

\* how many plugins the registries answer for in one check_for_updates
MaxLookups == 2

NoVersion == <<>>

\* Python's None for an Optional[int]
None == <<>>

NoInfo == [version |-> NoVersion, filename |-> <<>>]

GeyserVersions == {<<"2">>}

GeyserBuilds == {<<"9">>, <<"1", "0">>}

ModrinthVersions == {<<"5", ".", "0">>, <<"5", ".", "1">>}

\* a registry file name that does not change with the version, and one that does
FixedName(p) == << <<p>>, "jar" >>

VersionedName(p, v) == << <<p, v>>, "jar" >>

\* the answers the source of plugin p can give (None is NoInfo)
LookupResults(p) ==
    LET c == PluginConfig(p) IN
    IF c.source = "modrinth"
    THEN {ModrinthInfo(v, n) : v \in ModrinthVersions, n \in {FixedName(p)}}
         \cup {ModrinthInfo(v, VersionedName(p, v)) : v \in ModrinthVersions}
    ELSE {GeyserInfo(c.project, c.artifact, v, b) : v \in GeyserVersions, b \in GeyserBuilds}

AllLookupResults == UNION {LookupResults(p) : p \in PluginNames}

\* shared-plugins.json when the process starts: versions were entered by
\* hand, some in the verbose '-build' spelling, and not for every plugin
ManifestInit ==
    [p \in PluginNames |->
        CASE p = "ViaVersion"         -> <<"5", ".", "0">>
          [] p = "Geyser-Velocity"    -> <<"2", "-", "b", "u", "i", "l", "d", "9">>
          [] p = "floodgate-velocity" -> <<"2", "-", "b", "9">>
          [] OTHER                    -> NoVersion]

\* the bytes of a plugin build
Artifact(p, v) == [plugin |-> p, version |-> v]

\* the hash object calculate_hash selects: every hash_type other than sha1
\* and sha512 gives sha256
HashAlgorithm(hash_type) ==
    IF hash_type = "sha1" THEN "sha1"
    ELSE IF hash_type = "sha512" THEN "sha512" ELSE "sha256"

\* one hexadecimal digit (lower case) for a character of the content
HexDigit(c) ==
    IF c \in Digits THEN c
    ELSE IF c = "." THEN "a"
    ELSE IF c = "-" THEN "d"
    ELSE IF c \in {"b", "c", "e", "f"} THEN c
    ELSE "f"

\* hash_obj.hexdigest(): a string of lower-case hexadecimal digits that
\* depends on the algorithm and on every byte of the content
hexdigest(content, hash_type) ==
    << CASE HashAlgorithm(hash_type) = "sha1" -> "1"
         [] HashAlgorithm(hash_type) = "sha512" -> "5"
         [] OTHER -> "2",
       IF content.plugin = "ViaVersion" THEN "e" ELSE "c" >>
    \o [i \in 1..Len(content.version) |-> HexDigit(content.version[i])]

\* calculate_hash(jar_path, "sha256") of update_deployment_state
calculate_hash(content) == hexdigest(content, "sha256")

InitTime == "2026-01-01T00:00:00"

RunTime == "2026-01-02T00:00:00"

\* the plugins directories when the process starts: the proxy and the
\* first backend carry the builds of the manifest, the lobby is a fresh server
RemoteInit ==
    [s \in ServerNames |->
        CASE s = "minecraft-proxy-0" ->
                (FixedName("ViaVersion") :> Artifact("ViaVersion", <<"5", ".", "0">>))
             @@ (GeyserInfo("geyser", "velocity", <<"2">>, <<"9">>).filename
                    :> Artifact("Geyser-Velocity", <<"2", "-", "b", "9">>))
             @@ (GeyserInfo("floodgate", "velocity", <<"2">>, <<"9">>).filename
                    :> Artifact("floodgate-velocity", <<"2", "-", "b", "9">>))
          [] s = "minecraft-paper-0" ->
                (FixedName("ViaVersion") :> Artifact("ViaVersion", <<"5", ".", "0">>))
             @@ (GeyserInfo("floodgate", "spigot", <<"2">>, <<"9">>).filename
                    :> Artifact("floodgate-spigot", <<"2", "-", "b", "9">>))
          [] OTHER -> EmptyMap]

\* one DeploymentRecord
DeploymentRecord(p, version, at, sha, previous) ==
    [plugin |-> p, version |-> version, deployed_at |-> at,
     deployed_by |-> "minecraft-plugin-manager", sha256 |-> sha,
     previous_version |-> previous, note |-> "Automated deployment"]

\* json.load of a missing file is replaced by {} (load_deployment_state)
EmptyDoc == [last_updated |-> "", servers |-> EmptyMap]

\* a deployment-state.json written by an earlier run: the lobby server was
\* added to the inventory later and has no entry yet
StateDocInit ==
    [last_updated |-> InitTime,
     servers |->
        [s \in {"minecraft-proxy-0", "minecraft-paper-0"} |->
            [platform |-> ServerConfig(s).platform,
             uuid |-> ServerConfig(s).uuid,
             deployed_plugins |->
                IF s = "minecraft-proxy-0"
                THEN {DeploymentRecord("ViaVersion", <<"5", ".", "0">>, InitTime,
                                       <<"unknown">>, <<"4", ".", "9">>),
                      DeploymentRecord("Geyser-Velocity", <<"2", "-", "b", "9">>, InitTime,
                                       <<"unknown">>, <<"2", "-", "b", "8">>)}
                ELSE {DeploymentRecord("ViaVersion", <<"5", ".", "0">>, InitTime,
                                       <<"unknown">>, <<"4", ".", "9">>)}]]]

\* the file on disk: missing, complete, or cut short by an interrupted write
FileOf(kind, doc) == [kind |-> kind, doc |-> doc]

MissingFile == FileOf("missing", EmptyDoc)

\* MinecraftPluginUpdater.load_deployment_state
load_deployment_state(file) == IF file.kind = "missing" THEN EmptyDoc ELSE file.doc

\* no source was asked yet
NoLookups == [p \in PluginNames |-> NoInfo]

\* the downloads directory: does it exist, and its files (name -> content)
LocalInit == [exists |-> TRUE, files |-> EmptyMap]

\* one external call of the run, for the history
Call(op, server, plugin, ok) == [op |-> op, server |-> server, plugin |-> plugin, ok |-> ok]

Init ==
    /\ dry_run \in BOOLEAN
    /\ force \in BOOLEAN
    /\ manifest = ManifestInit
    /\ stateFile \in {MissingFile, FileOf("complete", StateDocInit)}
    /\ stateFile0 = stateFile
    /\ deployment_state = load_deployment_state(stateFile)
    /\ updates_available = EmptyMap
    /\ downloads = <<>>
    /\ remote = RemoteInit
    /\ pc = "check"
    /\ result = "running"
    /\ preflight_ok = "unset"
    /\ preflight_issues = <<>>
    /\ plugins_to_deploy = <<>>
    /\ ci = 1
    /\ velocity_build = None
    /\ compatibility_issues = <<>>
    /\ compatible = "unset"
    /\ pi = 1
    /\ si = 1
    /\ success_count = 0
    /\ deployment_success = <<>>
    /\ probe_stdout = ""
    /\ ri = 1
    /\ trace = <<>>
    /\ rs = 1
    /\ backup_files = <<>>
    /\ bi = 1
    /\ rollback_success = <<>>
    /\ rk = 1
    /\ inconsistencies = EmptyMap
    /\ inventory = SERVERS
    /\ lookups = NoLookups
    /\ procs = <<>>
    /\ local_fs = LocalInit
    /\ args = <<>>
    /\ ret = <<>>

----------------------------------------------------------------------------
(* updater.py: check_for_updates, download_all_updates                     *)

\* fault variant: the versions are compared as written
IsCandidate_Raw(current_version, latest_version, forced) ==
    current_version /= latest_version \/ forced

\* the comparison of check_for_updates, line 141
IsCandidate(current_version, latest_version, forced) ==
    normalize_version(current_version) /= normalize_version(latest_version) \/ forced

\* the updates dict that check_for_updates builds from the sources' answers
CheckUpdates(man, src, forced) ==
    LET cand == {p \in PluginNames :
                    /\ man[p] /= NoVersion
                    /\ src[p] /= NoInfo
                    /\ IsCandidate(man[p], src[p].version, forced)}
    IN [p \in cand |-> [current |-> man[p], latest |-> src[p].version, info |-> src[p]]]

check_for_updates ==
    /\ pc = "check"
    /\ \E answered \in SUBSET {p \in PluginNames : manifest[p] /= NoVersion} :
         /\ Cardinality(answered) <= MaxLookups
         /\ \E ans \in [answered -> AllLookupResults] :
              /\ \A p \in answered : ans[p] \in LookupResults(p)
              /\ LET src == [p \in PluginNames |-> IF p \in answered THEN ans[p] ELSE NoInfo]
                 IN /\ updates_available' = CheckUpdates(manifest, src, force)
                    /\ lookups' = src
    /\ pc' = "download"
    /\ UNCHANGED <<otherVars, dry_run, force, manifest, stateFile, stateFile0, deployment_state,
                   downloads, remote, result, preflight_ok, preflight_issues,
                   plugins_to_deploy, ci, velocity_build, compatibility_issues,
                   compatible, pi, si, success_count, deployment_success,
                   probe_stdout, ri, trace>>

\* the downloader.download calls of download_all_updates, one for each
\* candidate in the order of the updates dict
DownloadCalls(candidates, fetched) ==
    LET order == SelectFrom(PluginOrder, 1, candidates)
    IN [k \in 1..Len(order) |-> Call("download", "-", order[k], order[k] \in fetched)]

\* download_all_updates: in dry-run every download "succeeds"; otherwise the
\* downloader returns a path for some of the candidates and None for the rest
download_all_updates ==
    /\ pc = "download"
    /\ \E fetched \in SUBSET (DOMAIN updates_available) :
         /\ dry_run => fetched = DOMAIN updates_available
         /\ downloads' = SelectFrom(PluginOrder, 1, fetched)
         /\ trace' = trace \o DownloadCalls(DOMAIN updates_available, fetched)
    /\ pc' = "preflight"
    /\ UNCHANGED <<otherVars, lookups, dry_run, force, manifest, stateFile, stateFile0, deployment_state,
                   updates_available, remote, result, preflight_ok, preflight_issues,
                   plugins_to_deploy, ci, velocity_build, compatibility_issues,
                   compatible, pi, si, success_count, deployment_success,
                   probe_stdout, ri>>

----------------------------------------------------------------------------
(* deployment.py: run_preflight_checks, check_infrastructure_compatibility *)

inputVars == <<dry_run, force, manifest, stateFile0, updates_available, downloads, lookups>>

gateVars == <<preflight_ok, preflight_issues, plugins_to_deploy, ci, velocity_build,
              compatibility_issues, compatible>>

loopVars == <<pi, si, success_count, deployment_success, probe_stdout, ri>>

\* a Python bool kept in a variable that starts unset
PyBool(b) == IF b THEN "True" ELSE "False"

\* what the disk-usage probe can yield: nothing usable, or a percentage
NoUsage == <<>>

DiskUsages == {NoUsage, <<89>>, <<90>>}

\* fault variant: a full disk is only a warning
PreflightIssues_DiskSoft(ssh_ok, usage, writable) ==
       (IF ssh_ok THEN <<>> ELSE <<"ssh">>)
    \o (IF writable THEN <<>> ELSE <<"downloads_dir">>)

\* the issues list of run_preflight_checks for the outcomes of its checks:
\* ssh_ok is '"ok" in result.stdout' without exception, usage the parsed
\* percentage (NoUsage: empty output, short output or an exception),
\* writable the outcome of the sentinel-file check
PreflightIssues(ssh_ok, usage, writable) ==
       (IF ssh_ok THEN <<>> ELSE <<"ssh">>)
    \o (IF usage /= NoUsage /\ ~(usage[1] < 90) THEN <<"disk">> ELSE <<>>)
    \o (IF writable THEN <<>> ELSE <<"downloads_dir">>)

\* fault variant: the checks always pass
PreflightResult_Always(issues) == TRUE

\* 'if issues: return False, issues / else: return True, []'
PreflightResult(issues) == issues = <<>>

\* fault variant: the abort on a failed preflight is missing
PreflightAborts_Never(ok) == FALSE

\* deploy_all_updates: 'if not preflight_ok: return False'
PreflightAborts(ok) == ~ok

run_preflight_checks ==
    /\ pc = "preflight"
    /\ \E ssh_ok \in BOOLEAN, usage \in DiskUsages, writable \in BOOLEAN :
         LET issues == PreflightIssues(ssh_ok, usage, writable)
             ok == PreflightResult(issues)
         IN /\ preflight_issues' = issues
            /\ preflight_ok' = PyBool(ok)
            /\ IF PreflightAborts(ok)
               THEN pc' = "done" /\ result' = "False" /\ plugins_to_deploy' = plugins_to_deploy
               ELSE pc' = "compat" /\ result' = result /\ plugins_to_deploy' = downloads
    /\ trace' = Append(trace, Call("run_preflight_checks", "-", "-", TRUE))
    /\ UNCHANGED <<otherVars, inputVars, stateFile, deployment_state, remote, ci, velocity_build,
                   compatibility_issues, compatible, loopVars>>

\* Optional[int] of get_velocity_build_number
VelocityBuilds == {None, <<450>>, <<500>>}

\* 'plugin_name in COMPATIBILITY_MATRIX' and '"velocity" in requirements'
NeedsVelocity(p) == p \in DOMAIN COMPATIBILITY_MATRIX

\* 'if velocity_build is None: velocity_build = self.get_velocity_build_number()'
ProbeNeeded(build) == build = None

\* fault variant: the build has to exceed the minimum
CompatIssue_Strict(p, build) ==
    IF build = None THEN << [plugin |-> p, kind |-> "warning"] >>
    ELSE IF build[1] <= COMPATIBILITY_MATRIX[p].velocity.min_build
         THEN << [plugin |-> p, kind |-> "error"] >>
         ELSE <<>>

\* the issue one Velocity-dependent plugin adds, <<>> if none
CompatIssue(p, build) ==
    IF build = None THEN << [plugin |-> p, kind |-> "warning"] >>
    ELSE IF build[1] < COMPATIBILITY_MATRIX[p].velocity.min_build
         THEN << [plugin |-> p, kind |-> "error"] >>
         ELSE <<>>

\* one iteration of the loop for a plugin without Velocity requirement
compat_skip ==
    /\ pc = "compat"
    /\ ci <= Len(plugins_to_deploy)
    /\ ~NeedsVelocity(plugins_to_deploy[ci])
    /\ ci' = ci + 1
    /\ trace' = Append(trace, Call("compat_check", "-", plugins_to_deploy[ci], TRUE))
    /\ UNCHANGED <<otherVars, inputVars, stateFile, deployment_state, remote, pc, result,
                   preflight_ok, preflight_issues, plugins_to_deploy, velocity_build,
                   compatibility_issues, compatible, loopVars>>

\* one iteration of the loop for a plugin of the compatibility matrix
compat_check ==
    /\ pc = "compat"
    /\ ci <= Len(plugins_to_deploy)
    /\ NeedsVelocity(plugins_to_deploy[ci])
    /\ LET p == plugins_to_deploy[ci] IN
       \E probed \in VelocityBuilds :
         LET build == IF ProbeNeeded(velocity_build) THEN probed ELSE velocity_build IN
         /\ ~ProbeNeeded(velocity_build) => probed = None
         /\ velocity_build' = build
         /\ compatibility_issues' = compatibility_issues \o CompatIssue(p, build)
         /\ trace' = trace \o <<Call("compat_check", "-", p, TRUE)>>
                       \o (IF ProbeNeeded(velocity_build)
                           THEN <<Call("get_velocity_build_number", "-", p, build /= None)>>
                           ELSE <<>>)
    /\ ci' = ci + 1
    /\ UNCHANGED <<otherVars, inputVars, stateFile, deployment_state, remote, pc, result,
                   preflight_ok, preflight_issues, plugins_to_deploy, compatible, loopVars>>

\* 'if compatibility_issues: return False, issues / else: return True, []'
CompatResult(issues) == issues = <<>>

\* fault variant: the abort on a failed compatibility gate is missing
CompatAborts_Never(ok) == FALSE

\* deploy_all_updates: 'if not compatible: return False'
CompatAborts(ok) == ~ok

compat_return ==
    /\ pc = "compat"
    /\ ci > Len(plugins_to_deploy)
    /\ LET ok == CompatResult(compatibility_issues) IN
       /\ compatible' = PyBool(ok)
       /\ IF CompatAborts(ok)
          THEN pc' = "done" /\ result' = "False"
          ELSE pc' = "deploy" /\ result' = result
    /\ trace' = Append(trace, Call("compat_return", "-", "-", TRUE))
    /\ UNCHANGED <<otherVars, inputVars, stateFile, deployment_state, remote, preflight_ok,
                   preflight_issues, plugins_to_deploy, ci, velocity_build,
                   compatibility_issues, loopVars>>

----------------------------------------------------------------------------
(* updater.py deploy_all_updates, deployment.py deploy_to_server            *)

\* 'for server_name, server_config in SERVERS.items(): if platform in platforms'
RECURSIVE TargetsFrom(_, _)
TargetsFrom(platforms, i) ==
    IF i > Len(SERVERS) THEN <<>>
    ELSE (IF SERVERS[i].platform \in platforms THEN <<SERVERS[i].name>> ELSE <<>>)
         \o TargetsFrom(platforms, i + 1)

target_servers(p) == TargetsFrom(PluginConfig(p).platforms, 1)

\* remote_jar_name = jar_path.name
remote_jar_name(p) == updates_available[p].info.filename

\* strftime("%Y%m%d%H%M%S") of the time of the call
BackupStamp == "20260102000000"

\* backup_name = f"{remote_jar_name}.{timestamp}.BAK"
backup_name(jar_name, timestamp) == jar_name \o <<timestamp, "BAK">>

\* the downloaded build of plugin p
NewArtifact(p) == Artifact(p, updates_available[p].latest)

\* deployment_success[server_name].append(plugin_name), creating the list
RECURSIVE TrackFrom(_, _, _, _)
TrackFrom(ds, i, s, p) ==
    IF i > Len(ds) THEN Append(ds, [server |-> s, plugins |-> <<p>>])
    ELSE IF ds[i].server = s
         THEN SubSeq(ds, 1, i - 1) \o << [server |-> s, plugins |-> Append(ds[i].plugins, p)] >>
              \o SubSeq(ds, i + 1, Len(ds))
         ELSE TrackFrom(ds, i + 1, s, p)

\* fault variant: one entry per deployed plugin instead of one per server
TrackSuccess_PerPlugin(ds, s, p) == Append(ds, [server |-> s, plugins |-> <<p>>])

TrackSuccess(ds, s, p) == TrackFrom(ds, 1, s, p)

CurPlugin == downloads[pi]

CurServer == target_servers(CurPlugin)[si]

\* fault variant: a failed pair is tried again
DeployReturns_Retry(ok, calls) ==
    /\ success_count' = IF ok THEN success_count + 1 ELSE success_count
    /\ deployment_success' =
         IF ok THEN TrackSuccess(deployment_success, CurServer, CurPlugin)
         ELSE deployment_success
    /\ si' = IF ok THEN si + 1 ELSE si
    /\ pc' = "deploy"
    /\ probe_stdout' = ""
    /\ trace' = trace \o calls \o <<Call("deploy_return", CurServer, CurPlugin, ok)>>

\* deploy_to_server returns ok to the loop of deploy_all_updates (lines 245-251)
DeployReturns(ok, calls) ==
    /\ success_count' = IF ok THEN success_count + 1 ELSE success_count
    /\ deployment_success' =
         IF ok THEN TrackSuccess(deployment_success, CurServer, CurPlugin)
         ELSE deployment_success
    /\ si' = si + 1
    /\ pc' = "deploy"
    /\ probe_stdout' = ""
    /\ trace' = trace \o calls \o <<Call("deploy_return", CurServer, CurPlugin, ok)>>

\* deploy_to_server is entered; in dry-run it returns True at once
deploy_to_server ==
    /\ pc = "deploy"
    /\ pi <= Len(downloads)
    /\ si <= Len(target_servers(CurPlugin))
    /\ IF dry_run
       THEN DeployReturns(TRUE, <<Call("deploy_to_server", CurServer, CurPlugin, TRUE)>>)
       ELSE /\ pc' = "probe"
            /\ trace' = Append(trace, Call("deploy_to_server", CurServer, CurPlugin, TRUE))
            /\ UNCHANGED <<si, success_count, deployment_success, probe_stdout>>
    /\ UNCHANGED <<otherVars, inputVars, stateFile, deployment_state, remote, result, gateVars, pi, ri>>

\* stdout of 'test -f path && echo exists || echo new' when the command ran
ProbeAnswer(dir, jar_name) == IF jar_name \in DOMAIN dir THEN "exists" ELSE "new"

\* '"exists" in result.stdout'
BackupWanted(stdout) == stdout = "exists"

\* the existence probe: it answers, or ssh fails and prints nothing (the
\* exit status is not checked), or it times out
deploy_probe ==
    /\ pc = "probe"
    /\ \E outcome \in {"answer", "silent", "timeout"} :
         IF outcome = "timeout"
         THEN DeployReturns(FALSE, <<Call("ssh_test", CurServer, CurPlugin, FALSE)>>)
         ELSE LET out == IF outcome = "answer"
                         THEN ProbeAnswer(remote[CurServer], remote_jar_name(CurPlugin))
                         ELSE ""
              IN /\ probe_stdout' = out
                 /\ pc' = IF BackupWanted(out) THEN "backup" ELSE "scp"
                 /\ trace' = Append(trace, Call("ssh_test", CurServer, CurPlugin, outcome = "answer"))
                 /\ UNCHANGED <<si, success_count, deployment_success>>
    /\ UNCHANGED <<otherVars, inputVars, stateFile, deployment_state, remote, result, gateVars, pi, ri>>

\* 'cp remote_jar_path plugins_dir/backup_name', check=True
deploy_backup ==
    /\ pc = "backup"
    /\ \E ok \in BOOLEAN :
         IF ok
         THEN /\ remote' = [remote EXCEPT ![CurServer] =
                    MapPut(@, backup_name(remote_jar_name(CurPlugin), BackupStamp),
                           @[remote_jar_name(CurPlugin)])]
              /\ pc' = "scp"
              /\ trace' = Append(trace, Call("ssh_cp", CurServer, CurPlugin, TRUE))
              /\ UNCHANGED <<si, success_count, deployment_success, probe_stdout>>
         ELSE /\ DeployReturns(FALSE, <<Call("ssh_cp", CurServer, CurPlugin, FALSE)>>)
              /\ UNCHANGED remote
    /\ UNCHANGED <<otherVars, inputVars, stateFile, deployment_state, result, gateVars, pi, ri>>

\* 'scp jar_path node:remote_jar_path', check=True
deploy_scp ==
    /\ pc = "scp"
    /\ \E ok \in BOOLEAN :
         IF ok
         THEN /\ remote' = [remote EXCEPT ![CurServer] =
                    MapPut(@, remote_jar_name(CurPlugin), NewArtifact(CurPlugin))]
              /\ pc' = "perms"
              /\ trace' = Append(trace, Call("scp", CurServer, CurPlugin, TRUE))
              /\ UNCHANGED <<si, success_count, deployment_success, probe_stdout>>
         ELSE /\ DeployReturns(FALSE, <<Call("scp", CurServer, CurPlugin, FALSE)>>)
              /\ UNCHANGED remote
    /\ UNCHANGED <<otherVars, inputVars, stateFile, deployment_state, result, gateVars, pi, ri>>

\* 'chown 988:988 path && chmod 644 path', check=True
deploy_perms ==
    /\ pc = "perms"
    /\ \E ok \in BOOLEAN :
         DeployReturns(ok, <<Call("ssh_chown", CurServer, CurPlugin, ok)>>)
    /\ UNCHANGED <<otherVars, inputVars, stateFile, deployment_state, remote, result, gateVars, pi, ri>>

\* fault variant: one successful target is enough
AllTargetsDone_Some(count, targets) == count > 0

\* 'if success_count == len(target_servers)', line 253
AllTargetsDone(count, targets) == count = Len(targets)

\* the end of the target loop of one plugin
plugin_done ==
    /\ pc = "deploy"
    /\ pi <= Len(downloads)
    /\ si > Len(target_servers(CurPlugin))
    /\ IF AllTargetsDone(success_count, target_servers(CurPlugin))
       THEN /\ pi' = pi + 1
            /\ si' = 1
            /\ success_count' = 0
            /\ UNCHANGED <<pc, result>>
       ELSE /\ pc' = "done"
            /\ result' = "False"
            /\ UNCHANGED <<pi, si, success_count>>
    /\ UNCHANGED <<otherVars, inputVars, stateFile, deployment_state, remote, gateVars,
                   deployment_success, probe_stdout, ri, trace>>

\* the plugin loop is over: on to the restarts
deploy_loop_done ==
    /\ pc = "deploy"
    /\ pi > Len(downloads)
    /\ pc' = "restart"
    /\ ri' = 1
    /\ UNCHANGED <<otherVars, inputVars, stateFile, deployment_state, remote, result, gateVars,
                   pi, si, success_count, deployment_success, probe_stdout, trace>>

----------------------------------------------------------------------------
(* restart, verification, update_deployment_state, save_deployment_state   *)

\* fault variant: a failed restart does not end the run
RestartAborts_Never(ok) == FALSE

\* deploy_all_updates: 'if not self.deployer.restart_server(...): return False'
RestartAborts(ok) == ~ok

\* restart_server for the next key of deployment_success; in dry-run it
\* returns True without any remote command
restart_server ==
    /\ pc = "restart"
    /\ ri <= Len(deployment_success)
    /\ LET s == deployment_success[ri].server IN
       \E ok \in BOOLEAN :
         /\ dry_run => ok
         /\ trace' = trace \o <<Call("restart_server", s, "-", ok)>>
                       \o (IF dry_run THEN <<>> ELSE <<Call("docker_restart", s, "-", ok)>>)
         /\ IF RestartAborts(ok)
            THEN pc' = "done" /\ result' = "False" /\ ri' = ri
            ELSE pc' = pc /\ result' = result /\ ri' = ri + 1
    /\ UNCHANGED <<otherVars, inputVars, stateFile, deployment_state, remote, gateVars,
                   pi, si, success_count, deployment_success, probe_stdout>>

\* the verify_plugin_loaded calls of lines 273-277, in order
RECURSIVE VerifyCalls(_, _)
VerifyCalls(ds, i) ==
    IF i > Len(ds) THEN <<>>
    ELSE [k \in 1..Len(ds[i].plugins) |->
            Call("verify_plugin_loaded", ds[i].server, ds[i].plugins[k], TRUE)]
         \o VerifyCalls(ds, i + 1)

\* all restarts succeeded: a dry run returns True here, a live run waits
\* and verifies; the results of verify_plugin_loaded are discarded
restart_done ==
    /\ pc = "restart"
    /\ ri > Len(deployment_success)
    /\ IF dry_run
       THEN pc' = "done" /\ result' = "True" /\ trace' = trace
       ELSE pc' = "update_state" /\ result' = result
            /\ trace' = trace \o VerifyCalls(deployment_success, 1)
    /\ UNCHANGED <<otherVars, inputVars, stateFile, deployment_state, remote, gateVars, loopVars>>

\* fault variant: the server's dict is replaced by the new entry
DictSet_Only(records, rec) == {rec}

\* fault variant: the record is appended to the server's records
DictSet_Append(records, rec) == records \cup {rec}

\* server_state["deployed_plugins"][plugin_name] = {...}: the dict keeps one
\* value per key
DictSet(records, rec) == {r \in records : r.plugin /= rec.plugin} \cup {rec}

\* 'if server_name not in self.deployment_state.get("servers", {}): continue'
ServerRecorded(doc, s) == s \in DOMAIN doc.servers

\* the record update_deployment_state writes for plugin p
NewRecord(p, timestamp) ==
    DeploymentRecord(p, updates_available[p].latest, timestamp,
                     calculate_hash(NewArtifact(p)), updates_available[p].current)

\* the inner loop of update_deployment_state over one server's plugins
RECURSIVE RecordPlugins(_, _, _, _)
RecordPlugins(records, plugins, k, timestamp) ==
    IF k > Len(plugins) THEN records
    ELSE RecordPlugins(
            IF plugins[k] \in DOMAIN updates_available
            THEN DictSet(records, NewRecord(plugins[k], timestamp))
            ELSE records,
            plugins, k + 1, timestamp)

\* the outer loop of update_deployment_state and the last_updated stamp
RECURSIVE RecordServers(_, _, _, _)
RecordServers(doc, ds, i, timestamp) ==
    IF i > Len(ds) THEN [doc EXCEPT !.last_updated = timestamp]
    ELSE RecordServers(
            IF ServerRecorded(doc, ds[i].server)
            THEN [doc EXCEPT !.servers[ds[i].server].deployed_plugins =
                      RecordPlugins(@, ds[i].plugins, 1, timestamp)]
            ELSE doc,
            ds, i + 1, timestamp)

update_deployment_state ==
    /\ pc = "update_state"
    /\ deployment_state' = RecordServers(deployment_state, deployment_success, 1, RunTime)
    /\ pc' = "save"
    /\ UNCHANGED <<otherVars, inputVars, stateFile, remote, result, gateVars, loopVars, trace>>

\* save_deployment_state, 'with open(DEPLOYMENT_STATE_FILE, "w") as f': the
\* file is truncated when it is opened
save_open ==
    /\ pc = "save"
    /\ stateFile' = FileOf("empty", EmptyDoc)
    /\ pc' = "save_write"
    /\ trace' = Append(trace, Call("save_deployment_state", "-", "-", TRUE))
    /\ UNCHANGED <<otherVars, inputVars, deployment_state, remote, result, gateVars, loopVars>>

\* json.dump writes the document piecewise: a first part reaches the disk
save_flush ==
    /\ pc = "save_write"
    /\ stateFile.kind = "empty"
    /\ stateFile' = FileOf("truncated", deployment_state)
    /\ UNCHANGED <<otherVars, inputVars, deployment_state, remote, pc, result, gateVars, loopVars, trace>>

\* the rest is written and the file is closed
save_close ==
    /\ pc = "save_write"
    /\ stateFile' = FileOf("complete", deployment_state)
    /\ pc' = "git"
    /\ UNCHANGED <<otherVars, inputVars, deployment_state, remote, result, gateVars, loopVars, trace>>

\* the process is interrupted (KeyboardInterrupt, kill) while the file is open
interrupt ==
    /\ pc = "save_write"
    /\ pc' = "done"
    /\ result' = "interrupted"
    /\ UNCHANGED <<otherVars, inputVars, stateFile, deployment_state, remote, gateVars, loopVars, trace>>

\* commit_to_git; deploy_all_updates ignores its result and returns True
commit_to_git ==
    /\ pc = "git"
    /\ \E ok \in BOOLEAN : trace' = Append(trace, Call("commit_to_git", "-", "-", ok))
    /\ pc' = "done"
    /\ result' = "True"
    /\ UNCHANGED <<otherVars, inputVars, stateFile, deployment_state, remote, gateVars, loopVars>>

----------------------------------------------------------------------------

Next ==
    \/ check_for_updates
    \/ download_all_updates
    \/ run_preflight_checks
    \/ compat_skip
    \/ compat_check
    \/ compat_return
    \/ deploy_to_server
    \/ deploy_probe
    \/ deploy_backup
    \/ deploy_scp
    \/ deploy_perms
    \/ plugin_done
    \/ deploy_loop_done
    \/ restart_server
    \/ restart_done
    \/ update_deployment_state
    \/ save_open
    \/ save_flush
    \/ save_close
    \/ interrupt
    \/ commit_to_git

Spec == Init /\ [][Next]_vars

----------------------------------------------------------------------------
(* Properties                                                              *)

\* the positions in the history of the calls of operation op
CallsOf(op) == {k \in DOMAIN trace : trace[k].op = op}

\* the operations that touch a server or the state file
MutatingOps == {"deploy_to_server", "ssh_test", "ssh_cp", "scp", "ssh_chown",
                "restart_server", "docker_restart", "save_deployment_state",
                "commit_to_git"}

NothingMutated ==
    /\ \A k \in DOMAIN trace : trace[k].op \notin MutatingOps
    /\ remote = RemoteInit
    /\ stateFile = stateFile0
    /\ deployment_state = load_deployment_state(stateFile0)

\* the number of target servers on which deploy_to_server returned True for p
SuccessCount(p) ==
    Cardinality({k \in CallsOf("deploy_return") : trace[k].plugin = p /\ trace[k].ok})

\* the servers on which deploy_to_server returned True for p
SucceededOn(p) ==
    {trace[k].server : k \in {j \in CallsOf("deploy_return") : trace[j].plugin = p /\ trace[j].ok}}

\* plugin p was deployed to some but not all of its targets
PartiallyDeployed(p) ==
    /\ SuccessCount(p) > 0
    /\ \E k \in CallsOf("deploy_return") : trace[k].plugin = p /\ ~trace[k].ok

\* the records the document holds for the pair (s, p)
RecordsOf(doc, s, p) ==
    IF s \in DOMAIN doc.servers
    THEN {r \in doc.servers[s].deployed_plugins : r.plugin = p}
    ELSE {}

\* is name the name of a backup file (f"{jar}.{timestamp}.BAK")
IsBackupName(name) == name[Len(name)] = "BAK"

\* C1: when run_preflight_checks returns ok = false, deploy_all_updates
\* returns False and the run has made no deploy_to_server call (probe,
\* backup, transfer, permissions), no restart, no compatibility probe and no
\* write of the deployment state.
C1_PreflightAbort ==
    preflight_ok = "False" =>
        /\ pc = "done"
        /\ result = "False"
        /\ NothingMutated
        /\ CallsOf("get_velocity_build_number") = {}
        /\ CallsOf("compat_check") = {}

W_C1_PreflightAbort ==
    /\ preflight_ok = "False"
    /\ pc = "done"
    /\ Len(downloads) > 0
    /\ ~dry_run

\* C2: the compatibility gate looks at every plugin of downloads, once, and
\* returns before the first deploy_to_server call; when it returns
\* not-compatible the run returns False and no server was changed or
\* restarted and no state was written.
C2_CompatGate ==
    /\ compatible = "False" => pc = "done" /\ result = "False" /\ NothingMutated
    /\ \A k \in CallsOf("deploy_to_server") :
         /\ compatible = "True"
         /\ Cardinality(CallsOf("compat_return")) = 1
         /\ \A r \in CallsOf("compat_return") :
              /\ r < k
              /\ \A p \in Range(downloads) :
                   Cardinality({c \in CallsOf("compat_check") :
                                   trace[c].plugin = p /\ c < r}) = 1

W_C2_CompatGate ==
    /\ compatible = "False"
    /\ pc = "done"
    /\ Len(downloads) > 1
    /\ ~dry_run

\* C3: whenever the transfer step of a live deploy_to_server call overwrites
\* a file that exists at the target path, a backup copy of that file, named
\* target name + timestamp + BAK, was made earlier in the same call, whatever
\* the existence probe returned.
CE_C3_BackupBeforeOverwrite ==
    [][ ( /\ pc = "scp"
          /\ pc' = "perms"
          /\ remote_jar_name(CurPlugin) \in DOMAIN remote[CurServer] )
        => LET b == backup_name(remote_jar_name(CurPlugin), BackupStamp) IN
           /\ b \in DOMAIN remote[CurServer]
           /\ remote[CurServer][b] = remote[CurServer][remote_jar_name(CurPlugin)]
      ]_vars

\* C4: if for some plugin of downloads deploy_to_server returned True on
\* fewer servers than the plugin has targets, deploy_all_updates returns
\* False, also when some servers were changed.
C4_AllOrNothing ==
    (pc = "done" /\ \E p \in Range(downloads) : SuccessCount(p) < Len(target_servers(p)))
        => result = "False"

W_C4_AllOrNothing ==
    /\ pc = "done"
    /\ result = "False"
    /\ \E p \in Range(downloads) : PartiallyDeployed(p)

\* C5: after a partially failed deployment of a plugin, every server on
\* which the deploy succeeded holds the new artifact and a backup copy of
\* the artifact of that plugin it held before.
CE_C5_PartialKeepsBackup ==
    \A p \in Range(downloads) :
        (pc = "done" /\ PartiallyDeployed(p)) =>
            \A s \in SucceededOn(p) :
                /\ remote_jar_name(p) \in DOMAIN remote[s]
                /\ remote[s][remote_jar_name(p)] = NewArtifact(p)
                /\ \A n \in DOMAIN RemoteInit[s] :
                     RemoteInit[s][n].plugin = p =>
                        \E b \in DOMAIN remote[s] :
                            IsBackupName(b) /\ remote[s][b] = RemoteInit[s][n]

\* a remote operation the run depends on has failed
RunFailed ==
    \/ preflight_ok = "False"
    \/ compatible = "False"
    \/ \E k \in CallsOf("deploy_return") : ~trace[k].ok
    \/ \E k \in CallsOf("docker_restart") : ~trace[k].ok

\* C6: the deployment-state file is written only after every remote
\* operation of the run succeeded; a run that returns False leaves the file
\* as it was before the run.
C6_StateWrittenLast ==
    /\ result = "False" => stateFile = stateFile0
    /\ RunFailed => stateFile = stateFile0

W_C6_StateWrittenLast ==
    /\ pc = "done"
    /\ result = "False"
    /\ stateFile0.kind = "complete"
    /\ \E k \in CallsOf("scp") : trace[k].ok
    /\ \E k \in CallsOf("docker_restart") : ~trace[k].ok

\* C7: after a live run that returns True, the persisted record of every
\* deployed plugin on every one of its target servers has the candidate's
\* latest version and, as previous_version, the candidate's current
\* version, whether or not the server had an entry in the file before.
CE_C7_RecordForEveryTarget ==
    (pc = "done" /\ result = "True" /\ ~dry_run) =>
        \A p \in Range(downloads) :
            \A s \in Range(target_servers(p)) :
                \E r \in RecordsOf(stateFile.doc, s, p) :
                    /\ r.version = updates_available[p].latest
                    /\ r.previous_version = updates_available[p].current

\* C8: after any run, for every pair whose artifact was transferred to the
\* server in the run, the persisted record of the pair carries the
\* transferred version.
CE_C8_StateIsWhatRuns ==
    pc = "done" =>
        \A k \in CallsOf("scp") :
            trace[k].ok =>
                \E r \in RecordsOf(stateFile.doc, trace[k].server, trace[k].plugin) :
                    r.version = updates_available[trace[k].plugin].latest

\* C9: the deployment state, in memory and on disk, holds at most one
\* record per (server, plugin) pair; recording a deployment for a pair that
\* has a record replaces it.
C9_OneRecordPerPair ==
    \A doc \in {deployment_state, stateFile.doc} :
        \A s \in ServerNames :
            \A p \in PluginNames :
                Cardinality(RecordsOf(doc, s, p)) <= 1

W_C9_OneRecordPerPair ==
    /\ stateFile.kind = "complete"
    /\ \E s \in ServerNames :
         \E p \in PluginNames :
            /\ \E r \in RecordsOf(stateFile0.doc, s, p) : r.deployed_at = InitTime
            /\ \E r \in RecordsOf(stateFile.doc, s, p) :
                 r.deployed_at = RunTime /\ r.version /= r.previous_version

\* C10: if the process is interrupted during save_deployment_state, the
\* file on disk is the complete previous content or the complete new
\* content, never an empty or truncated document.
CE_C10_SaveIsAtomic ==
    result = "interrupted" =>
        \/ stateFile = stateFile0
        \/ stateFile = FileOf("complete", deployment_state)

\* the servers on which some deploy_to_server call of the run returned True
DeployedServers == {trace[k].server : k \in {j \in CallsOf("deploy_return") : trace[j].ok}}

\* the servers for which restart_server was called
RestartedServers == {trace[k].server : k \in CallsOf("restart_server")}

\* C11: in every run that passes both gates, every server on which at least
\* one deploy_to_server call succeeded has been restarted when the run
\* returns, also when the run returns False because another target failed
\* or another server's restart failed.
CE_C11_DeployedIsRestarted ==
    (pc = "done" /\ compatible = "True") => DeployedServers \subseteq RestartedServers

\* C12: if restart_server fails for a server that received a deployment,
\* deploy_all_updates returns False and makes no verify_plugin_loaded call,
\* no write of the deployment state and no git commit.
C12_RestartFailureAborts ==
    (\E k \in CallsOf("restart_server") : ~trace[k].ok) =>
        /\ pc = "done"
        /\ result = "False"
        /\ CallsOf("verify_plugin_loaded") = {}
        /\ CallsOf("save_deployment_state") = {}
        /\ CallsOf("commit_to_git") = {}
        /\ stateFile = stateFile0
        /\ deployment_state = load_deployment_state(stateFile0)

W_C12_RestartFailureAborts ==
    /\ \E k \in CallsOf("restart_server") : ~trace[k].ok /\ trace[k].server \in DeployedServers
    /\ \E k \in CallsOf("restart_server") : trace[k].ok
    /\ pc = "done"

\* the issues of severity kind in the list the gate returns
IssuesOfKind(kind) == {i \in DOMAIN compatibility_issues : compatibility_issues[i].kind = kind}

\* C13: check_infrastructure_compatibility returns ok = false exactly when
\* it recorded at least one hard failure (build below the minimum); with
\* only warnings (build not determined) it returns ok = true.
CE_C13_WarningsDoNotBlock ==
    compatible /= "unset" => (compatible = "False" <=> IssuesOfKind("error") /= {})

\* the issues the gate holds for plugin p
IssuesFor(p) == {i \in DOMAIN compatibility_issues : compatibility_issues[i].plugin = p}

\* the build in effect at the check at position c of the history: not
\* determined if the probe made for that check failed, otherwise the
\* remembered build
BuildAt(c) ==
    IF /\ c + 1 \in DOMAIN trace
       /\ trace[c + 1].op = "get_velocity_build_number"
       /\ ~trace[c + 1].ok
    THEN None
    ELSE velocity_build

\* C14: for every candidate checked against a detected build B, the gate
\* holds exactly one issue, a hard failure naming the plugin, if the plugin
\* has a rule with min_build > B, and no issue if its rule has
\* min_build <= B; a candidate without a rule adds no issue whatever the
\* build is, and a set of candidates without rules never yields ok = false.
C14_IssuesMatchRules ==
    /\ \A c \in CallsOf("compat_check") :
         LET p == trace[c].plugin
             B == BuildAt(c)
         IN IF p \notin {"Geyser-Velocity", "floodgate-velocity"}
            THEN IssuesFor(p) = {}
            ELSE B /= None =>
                   IF (IF p = "Geyser-Velocity" THEN 500 ELSE 400) > B[1]
                   THEN /\ Cardinality(IssuesFor(p)) = 1
                        /\ IssuesFor(p) \subseteq IssuesOfKind("error")
                   ELSE IssuesFor(p) = {}
    /\ \A i \in DOMAIN compatibility_issues :
         compatibility_issues[i].plugin \in {"Geyser-Velocity", "floodgate-velocity"}
    /\ compatible = "False" =>
         \E p \in Range(plugins_to_deploy) : p \in {"Geyser-Velocity", "floodgate-velocity"}

W_C14_IssuesMatchRules ==
    /\ compatible = "False"
    /\ velocity_build = <<450>>
    /\ Len(plugins_to_deploy) = 2
    /\ "ViaVersion" \in Range(plugins_to_deploy)
    /\ IssuesOfKind("error") /= {}
    /\ IssuesOfKind("warning") = {}

----------------------------------------------------------------------------
(* deployment.py rollback_deployment                                       *)

\* the effect of a successful live deploy_to_server on a plugins directory:
\* the file that exists is copied to its backup name, then replaced
Deployed(dir, jar_name, timestamp, content) ==
    MapPut(IF jar_name \in DOMAIN dir
           THEN MapPut(dir, backup_name(jar_name, timestamp), dir[jar_name])
           ELSE dir,
           jar_name, content)

\* the time stamps of earlier deployments and of the last one, oldest first
Stamps == <<"20251231000000", "20260101000000", BackupStamp>>

StampRank(t) == CHOOSE i \in DOMAIN Stamps : Stamps[i] = t

\* the jar names of the servers, in the order of their strings
\* ("Floodgate-..." < "Geyser-..." < "ViaVersion.jar")
JarOrder ==
    << GeyserInfo("floodgate", "spigot", <<"2">>, <<"9">>).filename,
       GeyserInfo("floodgate", "velocity", <<"2">>, <<"9">>).filename,
       GeyserInfo("geyser", "velocity", <<"2">>, <<"9">>).filename,
       FixedName("ViaVersion") >>

JarRank(jar_name) == CHOOSE i \in DOMAIN JarOrder : JarOrder[i] = jar_name

\* the plugins directories a rollback can find on server s: the directory of
\* RemoteInit (no backups), the lobby with a first ViaVersion, and what one
\* or two later deployments made of them
RollbackDirs(s) ==
    LET via(v) == Artifact("ViaVersion", v)
        base == IF s = "minecraft-lobby-0"
                THEN Deployed(EmptyMap, FixedName("ViaVersion"), Stamps[1],
                              via(<<"4", ".", "9">>))
                ELSE RemoteInit[s]
        once == Deployed(base, FixedName("ViaVersion"), Stamps[2], via(<<"5", ".", "0">>))
        twice == Deployed(once, FixedName("ViaVersion"), Stamps[3], via(<<"5", ".", "1">>))
        geyser == GeyserInfo("geyser", "velocity", <<"2">>, <<"9">>).filename
    IN IF s = "minecraft-proxy-0"
       THEN {base, twice, Deployed(once, geyser, Stamps[3], base[geyser])}
       ELSE IF s = "minecraft-paper-0"
            THEN {base, once}
            ELSE {base, twice}

\* find -name "*.BAK": the names that end in .BAK
BackupsIn(dir) == {n \in DOMAIN dir : n[Len(n)] = "BAK"}

\* the jar name and the time stamp inside f"{jar}.{timestamp}.BAK"
BackupJar(n) == SubSeq(n, 1, Len(n) - 2)

BackupStampOf(n) == n[Len(n) - 1]

\* does the path a sort after the path b (string order, same directory)
SortsAfter(a, b) ==
    \/ JarRank(BackupJar(a)) > JarRank(BackupJar(b))
    \/ /\ BackupJar(a) = BackupJar(b)
       /\ StampRank(BackupStampOf(a)) > StampRank(BackupStampOf(b))

\* sort -r
RECURSIVE SortReverse(_)
SortReverse(names) ==
    IF names = {} THEN <<>>
    ELSE LET m == CHOOSE x \in names : \A y \in names \ {x} : SortsAfter(x, y)
         IN <<m>> \o SortReverse(names \ {m})

\* result.stdout.strip().split('\n') of the find command when it ran
find_backups(dir) == SortReverse(BackupsIn(dir))

\* backup_files[:10]
RollbackLimit == 10

Head10(files) == SubSeq(files, 1, IF Len(files) < RollbackLimit THEN Len(files) ELSE RollbackLimit)

\* original = backup_file.rsplit('.', 2)[0] + '.jar': the part before the
\* last two dots, with ".jar" appended to the string
restore_target(backup_file) ==
    (IF Len(backup_file) >= 3
     THEN SubSeq(backup_file, 1, Len(backup_file) - 2)
     ELSE <<backup_file[1]>>) \o <<"jar">>

\* one restore command of the run, for the history
RestoreCall(server, backup_file, original, ok) ==
    [op |-> "restore", server |-> server, plugin |-> "-", ok |-> ok,
     backup |-> backup_file, original |-> original]

\* one find command of the run, for the history
FindCall(server, outcome) ==
    [op |-> "find", server |-> server, plugin |-> "-", ok |-> outcome = "answer",
     outcome |-> outcome]

RollbackServer == SERVERS[rs].name

workflowVars == <<force, manifest, stateFile, stateFile0, deployment_state,
                  updates_available, downloads, gateVars, loopVars, inconsistencies,
                  inventory, lookups, local_fs, args, ret, procs>>

\* rollback_deployment is entered: a dry run returns True at once
rollback_deployment ==
    /\ pc = "rollback"
    /\ trace' = Append(trace, Call("rollback_deployment", "-", "-", TRUE))
    /\ IF dry_run
       THEN pc' = "done" /\ result' = "True"
       ELSE pc' = "rb_find" /\ result' = result
    /\ rs' = 1
    /\ rollback_success' = <<>>
    /\ UNCHANGED <<workflowVars, dry_run, remote, backup_files, bi, rk>>

\* the find command of one server: it lists the backups, or ssh fails and
\* prints nothing (the exit status is not checked), or it times out
rollback_find ==
    /\ pc = "rb_find"
    /\ rs <= Len(SERVERS)
    /\ \E outcome \in {"answer", "silent", "timeout"} :
         LET stdout == IF outcome = "answer" THEN find_backups(remote[RollbackServer]) ELSE <<>>
         IN /\ trace' = Append(trace, FindCall(RollbackServer, outcome))
            /\ IF outcome = "timeout"
               THEN /\ pc' = "done"
                    /\ result' = "False"
                    /\ UNCHANGED <<rs, backup_files, bi>>
               ELSE IF stdout = <<>>
                    THEN /\ rs' = rs + 1
                         /\ UNCHANGED <<pc, result, backup_files, bi>>
                    ELSE /\ backup_files' = stdout
                         /\ bi' = 1
                         /\ pc' = "rb_restore"
                         /\ UNCHANGED <<rs, result>>
    /\ UNCHANGED <<workflowVars, dry_run, remote, rollback_success, rk>>

\* fault variant: a failed restore command is not noticed
RestoreAborts_Never(ok) == FALSE

\* subprocess.run(restore_cmd, check=True) raises on failure and
\* 'except Exception: return False' ends the call
RestoreAborts(ok) == ~ok

\* one 'cp backup_file original' of the loop over backup_files[:10]
rollback_restore ==
    /\ pc = "rb_restore"
    /\ bi <= Len(Head10(backup_files))
    /\ LET backup_file == backup_files[bi]
           original == restore_target(backup_file)
       IN \E ok \in BOOLEAN :
            /\ trace' = Append(trace, RestoreCall(RollbackServer, backup_file, original, ok))
            /\ remote' = IF ok
                         THEN [remote EXCEPT ![RollbackServer] =
                                  MapPut(@, original, @[backup_file])]
                         ELSE remote
            /\ IF RestoreAborts(ok)
               THEN /\ pc' = "done"
                    /\ result' = "False"
                    /\ UNCHANGED <<bi, rollback_success>>
               ELSE /\ rollback_success' = TrackSuccess(rollback_success, RollbackServer, original)
                    /\ bi' = bi + 1
                    /\ UNCHANGED <<pc, result>>
    /\ UNCHANGED <<workflowVars, dry_run, rs, backup_files, rk>>

\* the listing of one server is worked off: on to the next server
rollback_next_server ==
    /\ pc = "rb_restore"
    /\ bi > Len(Head10(backup_files))
    /\ rs' = rs + 1
    /\ pc' = "rb_find"
    /\ UNCHANGED <<workflowVars, dry_run, remote, result, trace, backup_files, bi,
                   rollback_success, rk>>

\* fault variant: the call reports success whatever was restored
AnyRestored_Always(restored) == TRUE

\* 'if rollback_success:'
AnyRestored(restored) == restored /= <<>>

\* the server loop is over
rollback_loop_done ==
    /\ pc = "rb_find"
    /\ rs > Len(SERVERS)
    /\ IF AnyRestored(rollback_success)
       THEN pc' = "rb_restart" /\ result' = result
       ELSE pc' = "done" /\ result' = "False"
    /\ rk' = 1
    /\ UNCHANGED <<workflowVars, dry_run, remote, trace, rs, backup_files, bi,
                   rollback_success>>

\* 'for server_name in rollback_success.keys(): self.restart_server(...)':
\* the result of restart_server is not looked at
rollback_restart ==
    /\ pc = "rb_restart"
    /\ rk <= Len(rollback_success)
    /\ LET s == rollback_success[rk].server IN
       \E ok \in BOOLEAN :
         trace' = trace \o <<Call("restart_server", s, "-", ok),
                             Call("docker_restart", s, "-", ok)>>
    /\ rk' = rk + 1
    /\ UNCHANGED <<workflowVars, dry_run, remote, pc, result, rs, backup_files, bi,
                   rollback_success>>

\* 'return True' after the restarts
rollback_return ==
    /\ pc = "rb_restart"
    /\ rk > Len(rollback_success)
    /\ pc' = "done"
    /\ result' = "True"
    /\ UNCHANGED <<workflowVars, dry_run, remote, trace, rs, backup_files, bi,
                   rollback_success, rk>>

\* a process that runs 'rollback' (cli.py 391-398) against servers that
\* earlier deployments have left in one of RollbackDirs
InitRollback ==
    /\ dry_run \in BOOLEAN
    /\ force = FALSE
    /\ manifest = ManifestInit
    /\ stateFile = FileOf("complete", StateDocInit)
    /\ stateFile0 = stateFile
    /\ deployment_state = load_deployment_state(stateFile)
    /\ updates_available = EmptyMap
    /\ downloads = <<>>
    /\ remote \in {f \in [ServerNames -> UNION {RollbackDirs(s) : s \in ServerNames}] :
                     \A s \in ServerNames : f[s] \in RollbackDirs(s)}
    /\ pc = "rollback"
    /\ result = "running"
    /\ preflight_ok = "unset"
    /\ preflight_issues = <<>>
    /\ plugins_to_deploy = <<>>
    /\ ci = 1
    /\ velocity_build = None
    /\ compatibility_issues = <<>>
    /\ compatible = "unset"
    /\ pi = 1
    /\ si = 1
    /\ success_count = 0
    /\ deployment_success = <<>>
    /\ probe_stdout = ""
    /\ ri = 1
    /\ trace = <<>>
    /\ rs = 1
    /\ backup_files = <<>>
    /\ bi = 1
    /\ rollback_success = <<>>
    /\ rk = 1
    /\ inconsistencies = EmptyMap
    /\ inventory = SERVERS
    /\ lookups = NoLookups
    /\ procs = <<>>
    /\ local_fs = LocalInit
    /\ args = <<>>
    /\ ret = <<>>

NextRollback ==
    \/ rollback_deployment
    \/ rollback_find
    \/ rollback_restore
    \/ rollback_next_server
    \/ rollback_loop_done
    \/ rollback_restart
    \/ rollback_return

SpecRollback == InitRollback /\ [][NextRollback]_vars

\* the backups of the file jar_name in a directory
BackupsOf(dir, jar_name) == {b \in BackupsIn(dir) : BackupJar(b) = jar_name}

\* the backup of jar_name with the latest time stamp
MostRecentBackup(dir, jar_name) ==
    CHOOSE b \in BackupsOf(dir, jar_name) :
        \A c \in BackupsOf(dir, jar_name) :
            StampRank(BackupStampOf(c)) <= StampRank(BackupStampOf(b))

\* the plugin files of a directory
JarsIn(dir) == {n \in DOMAIN dir : n[Len(n)] = "jar"}

\* C15: after a live rollback_deployment that returns True, on every server
\* every plugin file with one or more backups has the content of its most
\* recent backup, also when the file has several backups.
CE_C15_RestoresMostRecent ==
    (pc = "done" /\ ~dry_run /\ result = "True") =>
        \A s \in ServerNames :
            \A f \in JarsIn(remote[s]) :
                BackupsOf(remote[s], f) /= {} =>
                    remote[s][f] = remote[s][MostRecentBackup(remote[s], f)]

\* C16: the restore target that rollback_deployment derives from the name
\* deploy_to_server gave the backup of a file F (F.timestamp.BAK) is F.
CE_C16_BackupNameRoundTrip ==
    \A k \in CallsOf("restore") :
        \A f \in JarsIn(remote[trace[k].server]) :
            \A t \in Range(Stamps) :
                trace[k].backup = backup_name(f, t) => trace[k].original = f

\* the servers on which a restore command of the run succeeded
RestoredServers == {trace[k].server : k \in {j \in CallsOf("restore") : trace[j].ok}}

\* a find or restore command of the run raised (timeout or failed cp)
RollbackStepFailed ==
    \/ \E k \in CallsOf("restore") : ~trace[k].ok
    \/ \E k \in CallsOf("find") : trace[k].outcome = "timeout"

\* C17 as stated: a live rollback_deployment has restarted, when it returns,
\* exactly the servers on which at least one file was restored, also when a
\* restore step failed.
CE_C17_RestartsRestored ==
    (pc = "done" /\ ~dry_run) => RestartedServers = RestoredServers

\* C17 amended: rollback_deployment restarts only servers on which a file
\* was restored; when it returns and no find or restore command raised, it
\* has restarted exactly those servers, each once; when a command raised it
\* returns False at once and has restarted no server.
C17_RestartsRestoredUnlessRaised ==
    /\ RestartedServers \subseteq RestoredServers
    /\ \A s \in ServerNames :
         Cardinality({k \in CallsOf("restart_server") : trace[k].server = s}) <= 1
    /\ (pc = "done" /\ ~dry_run) =>
         IF RollbackStepFailed
         THEN RestartedServers = {} /\ result = "False"
         ELSE RestartedServers = RestoredServers

W_C17_RestartsRestoredUnlessRaised ==
    /\ pc = "done"
    /\ RollbackStepFailed
    /\ RestoredServers /= {}
    /\ Cardinality(CallsOf("find")) > 1

\* C18 as stated: a live rollback_deployment returns True whenever at least
\* one server has at least one backup file.
CE_C18_TrueIfAnyBackup ==
    (pc = "done" /\ ~dry_run /\ \E s \in ServerNames : BackupsIn(remote[s]) /= {})
        => result = "True"

\* C18 amended: a live rollback_deployment returns True exactly when no find
\* or restore command raised and at least one file was restored; it returns
\* False when a command raised or a listing came back empty, also when
\* backup files exist.
C18_TrueIffRestoredAndNoneRaised ==
    (pc = "done" /\ ~dry_run) =>
        (result = "True" <=> (~RollbackStepFailed /\ RestoredServers /= {}))

W_C18_TrueIffRestoredAndNoneRaised ==
    /\ pc = "done"
    /\ ~dry_run
    /\ result = "False"
    /\ ~RollbackStepFailed
    /\ \E s \in ServerNames : BackupsIn(remote[s]) /= {}

----------------------------------------------------------------------------
(* updater.py check_version_consistency                                    *)

\* platforms[platform].append(server_name), creating the list
RECURSIVE GroupFrom(_, _, _, _)
GroupFrom(groups, i, platform, s) ==
    IF i > Len(groups) THEN Append(groups, [platform |-> platform, server_list |-> <<s>>])
    ELSE IF groups[i].platform = platform
         THEN [groups EXCEPT ![i].server_list = Append(@, s)]
         ELSE GroupFrom(groups, i + 1, platform, s)

\* the loop that groups the servers by platform, in the order of the dict
RECURSIVE PlatformsFrom(_, _, _)
PlatformsFrom(servers, i, groups) ==
    IF i > Len(servers) THEN groups
    ELSE PlatformsFrom(servers, i + 1,
                       GroupFrom(groups, 1, servers[i].platform, servers[i].name))

platforms(servers) == PlatformsFrom(servers, 1, <<>>)

\* 'if len(server_list) < 2: continue'
GroupChecked(server_list) == ~(Len(server_list) < 2)

\* server_plugins[server_name]: the server's deployed_plugins, {} without entry
server_plugins(doc, s) ==
    IF s \in DOMAIN doc.servers THEN doc.servers[s].deployed_plugins ELSE {}

\* all_plugins of one platform group
all_plugins(doc, server_list) ==
    UNION {{r.plugin : r \in server_plugins(doc, server_list[i])} : i \in DOMAIN server_list}

\* versions[server_name] for one plugin: the recorded version, or None
versions(doc, server_list, plugin_name) ==
    [s \in Range(server_list) |->
        IF \E r \in server_plugins(doc, s) : r.plugin = plugin_name
        THEN (CHOOSE r \in server_plugins(doc, s) : r.plugin = plugin_name).version
        ELSE NoVersion]

\* set(v for v in versions.values() if v is not None)
unique_versions(vs) == {vs[s] : s \in DOMAIN vs} \ {NoVersion}

\* fault variant: every member of the group is listed as missing
missing_servers_All(server_list, vs) == server_list

\* [s for s, v in versions.items() if v is None], in the order of the group
missing_servers(server_list, vs) ==
    SelectFrom(server_list, 1, {s \in DOMAIN vs : vs[s] = NoVersion})

\* fault variant: one version is reported as drift too
IsDrift_Any(unique) == Cardinality(unique) >= 1

\* 'if len(unique_versions) > 1'
IsDrift(unique) == Cardinality(unique) > 1

\* the entry one plugin of one group adds to inconsistencies[plugin], if any
GroupReport(doc, group, plugin_name) ==
    LET vs == versions(doc, group.server_list, plugin_name)
        unique == unique_versions(vs)
    IN IF IsDrift(unique)
       THEN << [platform |-> group.platform, servers |-> vs, unique_versions |-> unique] >>
       ELSE IF NoVersion \in Range(vs)
            THEN << [platform |-> group.platform, servers |-> vs, unique_versions |-> unique,
                     missing |-> missing_servers(group.server_list, vs)] >>
            ELSE <<>>

\* inconsistencies[plugin_name] after the groups from position g on
RECURSIVE ReportsFrom(_, _, _, _)
ReportsFrom(doc, groups, g, plugin_name) ==
    IF g > Len(groups) THEN <<>>
    ELSE (IF /\ GroupChecked(groups[g].server_list)
             /\ plugin_name \in all_plugins(doc, groups[g].server_list)
          THEN GroupReport(doc, groups[g], plugin_name)
          ELSE <<>>)
         \o ReportsFrom(doc, groups, g + 1, plugin_name)

\* the dict check_version_consistency returns
Inconsistencies(servers, doc) ==
    LET groups == platforms(servers)
        names == UNION {all_plugins(doc, groups[g].server_list) : g \in DOMAIN groups}
        found == {n \in names : ReportsFrom(doc, groups, 1, n) /= <<>>}
    IN [n \in found |-> ReportsFrom(doc, groups, 1, n)]

check_version_consistency ==
    /\ pc = "audit"
    /\ inconsistencies' = Inconsistencies(inventory, deployment_state)
    /\ pc' = "done"
    /\ result' = "True"
    /\ trace' = Append(trace, Call("check_version_consistency", "-", "-", TRUE))
    /\ UNCHANGED <<dry_run, force, manifest, stateFile, stateFile0, deployment_state,
                   updates_available, downloads, remote, gateVars, loopVars, rs,
                   backup_files, bi, rollback_success, rk, inventory, lookups,
                   local_fs, args, ret, procs>>

\* the inventory of config.py, and the same with one more backend server
MoreServers ==
    Append(SERVERS, [name |-> "minecraft-survival-0", uuid |-> "7d2c9e41", platform |-> "paper"])

Inventories == {SERVERS, MoreServers}

\* the versions the deployment state can record for a plugin
AuditVersions(plugin_name) ==
    IF plugin_name = "ViaVersion"
    THEN {<<"5", ".", "0">>, <<"5", ".", "1">>}
    ELSE {<<"2", "-", "b", "9">>, <<"2", "-", "b", "1", "0">>}

\* the deployed_plugins a server entry can hold: for each of two plugins no
\* record or a record of one of two versions (the proxy: ViaVersion only)
AuditRecords(platform) ==
    LET recs(n) == {{}} \cup {{DeploymentRecord(n, v, InitTime, <<"unknown">>, NoVersion)} :
                                 v \in AuditVersions(n)}
    IN IF platform = "velocity"
       THEN recs("ViaVersion")
       ELSE {a \cup b : a \in recs("ViaVersion"), b \in recs("floodgate-spigot")}

\* the entries the state file can hold for one server of the inventory: none
\* (<<>>), or one with some deployed_plugins
AuditEntries(cfg) ==
    {<<>>} \cup {<< [platform |-> cfg.platform, uuid |-> cfg.uuid, deployed_plugins |-> d] >> :
                    d \in AuditRecords(cfg.platform)}

\* the deployment-state documents over an inventory
AuditDocs(servers) ==
    LET cfg(n) == CHOOSE c \in Range(servers) : c.name = n
        names == {servers[i].name : i \in DOMAIN servers}
        choices == {f \in [names -> UNION {AuditEntries(cfg(n)) : n \in names}] :
                       \A n \in names : f[n] \in AuditEntries(cfg(n))}
    IN {[last_updated |-> InitTime,
         servers |-> [n \in {x \in names : f[x] /= <<>>} |-> f[n][1]]] : f \in choices}

\* a process that runs the audit (cli.py 403-405) on a state file written
\* by earlier runs
InitAudit ==
    /\ dry_run = FALSE
    /\ force = FALSE
    /\ manifest = ManifestInit
    /\ inventory \in Inventories
    /\ stateFile \in {FileOf("complete", d) : d \in AuditDocs(inventory)}
    /\ stateFile0 = stateFile
    /\ deployment_state = load_deployment_state(stateFile)
    /\ updates_available = EmptyMap
    /\ downloads = <<>>
    /\ remote = RemoteInit
    /\ pc = "audit"
    /\ result = "running"
    /\ preflight_ok = "unset"
    /\ preflight_issues = <<>>
    /\ plugins_to_deploy = <<>>
    /\ ci = 1
    /\ velocity_build = None
    /\ compatibility_issues = <<>>
    /\ compatible = "unset"
    /\ pi = 1
    /\ si = 1
    /\ success_count = 0
    /\ deployment_success = <<>>
    /\ probe_stdout = ""
    /\ ri = 1
    /\ trace = <<>>
    /\ rs = 1
    /\ backup_files = <<>>
    /\ bi = 1
    /\ rollback_success = <<>>
    /\ rk = 1
    /\ inconsistencies = EmptyMap
    /\ lookups = NoLookups
    /\ procs = <<>>
    /\ local_fs = LocalInit
    /\ args = <<>>
    /\ ret = <<>>

NextAudit == check_version_consistency

SpecAudit == InitAudit /\ [][NextAudit]_vars

\* the members of a platform group of the inventory
Members(platform) ==
    {inventory[i].name : i \in {j \in DOMAIN inventory : inventory[j].platform = platform}}

PlatformNames == {inventory[i].platform : i \in DOMAIN inventory}

\* the plugin names recorded anywhere in the deployment state
RecordNames ==
    UNION {{r.plugin : r \in deployment_state.servers[s].deployed_plugins} :
              s \in DOMAIN deployment_state.servers}

\* the members of the group that have a record for p, and the versions there
Having(platform, p) == {s \in Members(platform) : RecordsOf(deployment_state, s, p) /= {}}

VersionsOf(platform, p) ==
    {r.version : r \in UNION {RecordsOf(deployment_state, s, p) : s \in Members(platform)}}

\* the reports of the audit for plugin p in a platform group
ReportsOf(platform, p) ==
    IF p \in DOMAIN inconsistencies
    THEN {inconsistencies[p][i] :
            i \in {j \in DOMAIN inconsistencies[p] : inconsistencies[p][j].platform = platform}}
    ELSE {}

ReportCount(platform, p) ==
    IF p \in DOMAIN inconsistencies
    THEN Cardinality({j \in DOMAIN inconsistencies[p] : inconsistencies[p][j].platform = platform})
    ELSE 0

\* C19: for a platform group of two or more servers and a plugin whose
\* records in the group all carry the same version while at least one
\* member has no record, check_version_consistency emits exactly one report
\* for the plugin; it has a 'missing' list, and the list holds exactly the
\* members without a record, each once.
C19_MissingReport ==
    pc = "done" =>
        \A g \in PlatformNames :
            \A p \in RecordNames :
                ( /\ Cardinality(Members(g)) >= 2
                  /\ Cardinality(VersionsOf(g, p)) = 1
                  /\ Having(g, p) /= Members(g) )
                => /\ ReportCount(g, p) = 1
                   /\ \A r \in ReportsOf(g, p) :
                        /\ "missing" \in DOMAIN r
                        /\ Range(r.missing) = Members(g) \ Having(g, p)
                        /\ Len(r.missing) = Cardinality(Members(g) \ Having(g, p))

W_C19_MissingReport ==
    /\ pc = "done"
    /\ Len(inventory) = 4
    /\ Cardinality(Having("paper", "ViaVersion")) = 2
    /\ Cardinality(VersionsOf("paper", "ViaVersion")) = 1
    /\ "minecraft-survival-0" \notin DOMAIN deployment_state.servers
    /\ ReportCount("paper", "ViaVersion") = 1

\* C20: check_version_consistency emits a version-skew report (one without
\* 'missing') for a plugin in a platform group exactly when the group has
\* two or more servers and the plugin's records in the group carry more
\* than one version; then it is the only report for the plugin in that
\* group, also when some member has no record.
C20_SkewReport ==
    pc = "done" =>
        \A g \in PlatformNames :
            \A p \in RecordNames :
                LET skew == Cardinality(Members(g)) >= 2 /\ Cardinality(VersionsOf(g, p)) > 1
                IN /\ (\E r \in ReportsOf(g, p) : "missing" \notin DOMAIN r) <=> skew
                   /\ skew =>
                        /\ ReportCount(g, p) = 1
                        /\ \A r \in ReportsOf(g, p) :
                             /\ r.unique_versions = VersionsOf(g, p)
                             /\ \A s \in Members(g) :
                                  r.servers[s] = NoVersion <=> s \notin Having(g, p)

W_C20_SkewReport ==
    /\ pc = "done"
    /\ Cardinality(VersionsOf("paper", "ViaVersion")) = 2
    /\ Cardinality(Having("paper", "ViaVersion")) = 2
    /\ Cardinality(Members("paper")) = 3
    /\ ReportCount("paper", "ViaVersion") = 1
    /\ RecordsOf(deployment_state, "minecraft-proxy-0", "ViaVersion") /= {}

\* C21: check_version_consistency returns an empty report whenever in every
\* platform group every plugin recorded on some member has a record with
\* one and the same version on every member; and a non-empty report implies
\* a group of two or more servers with a plugin that is skewed or missing.
C21_EmptyIffConsistent ==
    pc = "done" =>
        /\ (\A g \in PlatformNames :
              \A p \in RecordNames :
                 VersionsOf(g, p) /= {} =>
                    Cardinality(VersionsOf(g, p)) = 1 /\ Having(g, p) = Members(g))
           => inconsistencies = EmptyMap
        /\ inconsistencies /= EmptyMap =>
             \E g \in PlatformNames :
                \E p \in RecordNames :
                   /\ Cardinality(Members(g)) >= 2
                   /\ \/ Cardinality(VersionsOf(g, p)) > 1
                      \/ VersionsOf(g, p) /= {} /\ Having(g, p) /= Members(g)

W_C21_EmptyIffConsistent ==
    /\ pc = "done"
    /\ inconsistencies = EmptyMap
    /\ Cardinality(Members("paper")) = 3
    /\ \A p \in {"ViaVersion", "floodgate-spigot"} : Having("paper", p) = Members("paper")
    /\ Having("velocity", "ViaVersion") /= {}

----------------------------------------------------------------------------
(* api_clients.py PluginDownloader.download                                *)

\* fault variant: the file is left where it is
unlink_Keep(files, name) == files

\* Path.unlink on a file of the downloads directory
unlink(files, name) == [x \in (DOMAIN files) \ {name} |-> files[x]]

\* one step of a download, for the history
DownloadCall(op, ok, content) ==
    [op |-> op, server |-> "-", plugin |-> "-", ok |-> ok, content |-> content]

\* what the URL serves, other bytes (a damaged transfer), and the first
\* part of a transfer that broke off
ServedJar == Artifact("ViaVersion", <<"5", ".", "1">>)

DamagedJar == Artifact("ViaVersion", <<"5", ".", "f">>)

PartialJar == Artifact("ViaVersion", <<"5">>)

\* str.upper on a hexadecimal string
upper(h) ==
    [i \in DOMAIN h |->
        CASE h[i] = "a" -> "A" [] h[i] = "b" -> "B" [] h[i] = "c" -> "C"
          [] h[i] = "d" -> "D" [] h[i] = "e" -> "E" [] h[i] = "f" -> "F"
          [] OTHER -> h[i]]

\* the hash a source can publish for the served file: none, the digest in
\* lower or upper case, or the digest of some other file
ExpectedHashes(hash_type) ==
    {None, hexdigest(ServedJar, hash_type), upper(hexdigest(ServedJar, hash_type)),
     hexdigest(Artifact("ViaVersion", <<"5", ".", "0">>), hash_type)}

\* download_path = DOWNLOADS_DIR / filename, as the value returned
download_path == <<args.filename>>

\* the except branch: 'if download_path.exists(): download_path.unlink()'
\* and 'return None'
DownloadFails(files) ==
    /\ local_fs' = [local_fs EXCEPT !.files = unlink(files, args.filename)]
    /\ ret' = None
    /\ pc' = "done"
    /\ result' = "False"

downloadFrame == <<dry_run, force, manifest, stateFile, stateFile0, deployment_state,
                   updates_available, downloads, remote, gateVars, loopVars, rs,
                   backup_files, bi, rollback_success, rk, inconsistencies, inventory,
                   lookups, args, procs>>

\* 'DOWNLOADS_DIR.mkdir(exist_ok=True)', then the dry-run return
download_enter ==
    /\ pc = "download_enter"
    /\ local_fs' = [local_fs EXCEPT !.exists = TRUE]
    /\ trace' = Append(trace, DownloadCall("mkdir", TRUE, None))
    /\ IF dry_run
       THEN pc' = "done" /\ result' = "True" /\ ret' = download_path
       ELSE pc' = "download_get" /\ result' = result /\ ret' = ret
    /\ UNCHANGED downloadFrame

\* requests.get(download_url, stream=True, timeout=30) and raise_for_status
download_get ==
    /\ pc = "download_get"
    /\ \E outcome \in {"ok", "timeout", "http_error"} :
         /\ trace' = Append(trace, DownloadCall("requests_get", outcome = "ok", None))
         /\ IF outcome = "ok"
            THEN pc' = "download_stream" /\ UNCHANGED <<local_fs, ret, result>>
            ELSE DownloadFails(local_fs.files)
    /\ UNCHANGED downloadFrame

\* open(download_path, 'wb') and the loop over response.iter_content: the
\* body arrives whole (as served or damaged), or the connection breaks
\* after a first part was written
download_stream ==
    /\ pc = "download_stream"
    /\ \E received \in {ServedJar, DamagedJar, PartialJar} :
         LET written == MapPut(local_fs.files, args.filename, received) IN
         /\ trace' = Append(trace, DownloadCall("iter_content", received /= PartialJar, received))
         /\ IF received = PartialJar
            THEN DownloadFails(written)
            ELSE /\ local_fs' = [local_fs EXCEPT !.files = written]
                 /\ pc' = "download_verify"
                 /\ UNCHANGED <<ret, result>>
    /\ UNCHANGED downloadFrame

\* fault variant: every file passes the verification
HashMatches_Always(calculated_hash, expected_hash) == TRUE

\* 'if calculated_hash == expected_hash'
HashMatches(calculated_hash, expected_hash) == calculated_hash = expected_hash

\* 'if expected_hash:' ... 'return download_path'
download_verify ==
    /\ pc = "download_verify"
    /\ IF /\ args.expected_hash /= None
          /\ ~HashMatches(hexdigest(local_fs.files[args.filename], args.hash_type),
                          args.expected_hash)
       THEN /\ DownloadFails(local_fs.files)
            /\ trace' = Append(trace, DownloadCall("unlink", TRUE, None))
       ELSE /\ ret' = download_path
            /\ pc' = "done"
            /\ result' = "True"
            /\ UNCHANGED <<local_fs, trace>>
    /\ UNCHANGED downloadFrame

\* the states of the downloads directory before a download: not created
\* yet, empty, or holding the file of an earlier download
LocalStates ==
    {[exists |-> FALSE, files |-> EmptyMap],
     LocalInit,
     [exists |-> TRUE,
      files |-> (FixedName("ViaVersion") :> Artifact("ViaVersion", <<"5", ".", "0">>))]}

\* one call of PluginDownloader.download, as download_all_updates makes it
InitDownload ==
    /\ dry_run \in BOOLEAN
    /\ force = FALSE
    /\ manifest = ManifestInit
    /\ stateFile = FileOf("complete", StateDocInit)
    /\ stateFile0 = stateFile
    /\ deployment_state = load_deployment_state(stateFile)
    /\ updates_available = EmptyMap
    /\ downloads = <<>>
    /\ remote = RemoteInit
    /\ pc = "download_enter"
    /\ result = "running"
    /\ preflight_ok = "unset"
    /\ preflight_issues = <<>>
    /\ plugins_to_deploy = <<>>
    /\ ci = 1
    /\ velocity_build = None
    /\ compatibility_issues = <<>>
    /\ compatible = "unset"
    /\ pi = 1
    /\ si = 1
    /\ success_count = 0
    /\ deployment_success = <<>>
    /\ probe_stdout = ""
    /\ ri = 1
    /\ trace = <<>>
    /\ rs = 1
    /\ backup_files = <<>>
    /\ bi = 1
    /\ rollback_success = <<>>
    /\ rk = 1
    /\ inconsistencies = EmptyMap
    /\ inventory = SERVERS
    /\ lookups = NoLookups
    /\ procs = <<>>
    /\ local_fs \in LocalStates
    /\ \E hash_type \in {"sha256", "sha512", "md5"} :
         args \in {[filename |-> FixedName("ViaVersion"), expected_hash |-> h,
                    hash_type |-> hash_type] : h \in ExpectedHashes(hash_type)}
    /\ ret = None

NextDownload ==
    \/ download_enter
    \/ download_get
    \/ download_stream
    \/ download_verify

SpecDownload == InitDownload /\ [][NextDownload]_vars

\* the network failed: the request timed out or was answered non-2xx, or
\* the connection broke while the body was read
NetworkFailed ==
    \/ \E k \in CallsOf("requests_get") : ~trace[k].ok
    \/ \E k \in CallsOf("iter_content") : ~trace[k].ok

\* the body arrived whole and its digest is not the expected hash
HashMismatched ==
    /\ args.expected_hash /= None
    /\ \E k \in CallsOf("iter_content") :
         trace[k].ok /\ hexdigest(trace[k].content, args.hash_type) /= args.expected_hash

\* C22: whenever a live download fails by hash mismatch or by network
\* failure, it returns None and no file is left at the destination path;
\* a path it returns for a file whose hash was checked names a file with
\* the expected hash.
C22_FailedDownloadLeavesNothing ==
    (pc = "done" /\ ~dry_run) =>
        /\ (NetworkFailed \/ HashMismatched) =>
              ret = None /\ args.filename \notin DOMAIN local_fs.files
        /\ (ret /= None /\ args.expected_hash /= None) =>
              /\ args.filename \in DOMAIN local_fs.files
              /\ hexdigest(local_fs.files[args.filename], args.hash_type) = args.expected_hash

W_C22_FailedDownloadLeavesNothing ==
    /\ pc = "done"
    /\ ret = None
    /\ \E k \in CallsOf("iter_content") : ~trace[k].ok
    /\ args.expected_hash /= None

\* str.lower on a hexadecimal string
lower(h) ==
    [i \in DOMAIN h |->
        CASE h[i] = "A" -> "a" [] h[i] = "B" -> "b" [] h[i] = "C" -> "c"
          [] h[i] = "D" -> "d" [] h[i] = "E" -> "e" [] h[i] = "F" -> "f"
          [] OTHER -> h[i]]

\* C23: a live download whose body arrived whole and whose expectedHash
\* equals the file's digest up to letter case returns the path, and the
\* file is kept.
CE_C23_HashCaseInsensitive ==
    (pc = "done" /\ ~dry_run /\ args.expected_hash /= None) =>
        \A k \in CallsOf("iter_content") :
            (trace[k].ok /\ lower(args.expected_hash) = hexdigest(trace[k].content, args.hash_type))
            => /\ ret = download_path
               /\ args.filename \in DOMAIN local_fs.files
               /\ local_fs.files[args.filename] = trace[k].content

\* C24: in dry-run mode download returns the destination path and makes no
\* network request and no change of the local file system: no file and no
\* directory is created, changed or removed.
CE_C24_DryRunTouchesNothing ==
    [][ dry_run =>
          /\ local_fs' = local_fs
          /\ pc' = "done" =>
               /\ ret' = download_path
               /\ \A k \in DOMAIN trace' : trace'[k].op \notin {"requests_get", "iter_content"}
      ]_vars

----------------------------------------------------------------------------
(* deployment.py run_preflight_checks, check by check                      *)

\* one check of run_preflight_checks, for the history
PreflightCall(check, outcome) ==
    [op |-> check, server |-> "-", plugin |-> "-", ok |-> TRUE, outcome |-> outcome]

\* check 1: 'echo ok' over ssh prints ok, prints something else or nothing,
\* or subprocess.run raises (timeout)
SshOutcomes == {"ok", "no_output", "exception"}

\* check 2: subprocess.run raises, df prints nothing, fewer than five
\* fields, a fifth field that is not a number, or a percentage
DiskOutcomes ==
    {[kind |-> k, pct |-> 0] : k \in {"exception", "empty", "short", "not_a_number"}}
    \cup {[kind |-> "percent", pct |-> n] : n \in {0, 89, 90, 91, 100}}

\* int(usage_pct) when the check gets that far
ParsedUsage(outcome) == IF outcome.kind = "percent" THEN <<outcome.pct>> ELSE NoUsage

preflightFrame == <<dry_run, force, manifest, stateFile, stateFile0, deployment_state,
                    updates_available, downloads, remote, plugins_to_deploy, ci,
                    velocity_build, compatibility_issues, compatible, loopVars, rs,
                    backup_files, bi, rollback_success, rk, inconsistencies, inventory,
                    lookups, args, procs>>

\* Check 1: SSH connectivity (lines 49-62)
preflight_ssh ==
    /\ pc = "pf_ssh"
    /\ \E outcome \in SshOutcomes :
         /\ preflight_issues' = preflight_issues \o PreflightIssues(outcome = "ok", NoUsage, TRUE)
         /\ trace' = Append(trace, PreflightCall("check_ssh", outcome))
    /\ pc' = "pf_disk"
    /\ UNCHANGED <<preflightFrame, preflight_ok, result, local_fs, ret>>

\* Check 2: disk space on the node (lines 64-79); an exception is logged
\* and adds no issue
preflight_disk ==
    /\ pc = "pf_disk"
    /\ \E outcome \in DiskOutcomes :
         /\ preflight_issues' =
                preflight_issues \o PreflightIssues(TRUE, ParsedUsage(outcome), TRUE)
         /\ trace' = Append(trace, PreflightCall("check_disk", outcome))
    /\ pc' = "pf_dir"
    /\ UNCHANGED <<preflightFrame, preflight_ok, result, local_fs, ret>>

\* Check 3: the downloads directory is created if missing and a sentinel
\* file is written and removed (lines 81-91); any exception is an issue
preflight_downloads_dir ==
    /\ pc = "pf_dir"
    /\ \E writable \in BOOLEAN :
         /\ preflight_issues' = preflight_issues \o PreflightIssues(TRUE, NoUsage, writable)
         /\ local_fs' = IF writable THEN [local_fs EXCEPT !.exists = TRUE] ELSE local_fs
         /\ trace' = Append(trace, PreflightCall("check_downloads_dir", writable))
    /\ pc' = "pf_state"
    /\ UNCHANGED <<preflightFrame, preflight_ok, result, ret>>

\* Check 4: DEPLOYMENT_STATE_FILE.exists() (lines 93-98): a warning is
\* logged, nothing is added to issues
preflight_state_file ==
    /\ pc = "pf_state"
    /\ trace' = Append(trace, PreflightCall("check_state_file", stateFile.kind /= "missing"))
    /\ pc' = "pf_return"
    /\ UNCHANGED <<preflightFrame, preflight_ok, preflight_issues, result, local_fs, ret>>

\* lines 100-105
preflight_return ==
    /\ pc = "pf_return"
    /\ LET ok == PreflightResult(preflight_issues) IN
       /\ preflight_ok' = PyBool(ok)
       /\ ret' = <<ok, IF ok THEN <<>> ELSE preflight_issues>>
       /\ result' = PyBool(ok)
    /\ pc' = "done"
    /\ UNCHANGED <<preflightFrame, preflight_issues, local_fs, trace>>

\* one call of DeploymentManager.run_preflight_checks
InitPreflight ==
    /\ dry_run \in BOOLEAN
    /\ force = FALSE
    /\ manifest = ManifestInit
    /\ stateFile \in {MissingFile, FileOf("complete", StateDocInit)}
    /\ stateFile0 = stateFile
    /\ deployment_state = load_deployment_state(stateFile)
    /\ updates_available = EmptyMap
    /\ downloads = <<>>
    /\ remote = RemoteInit
    /\ pc = "pf_ssh"
    /\ result = "running"
    /\ preflight_ok = "unset"
    /\ preflight_issues = <<>>
    /\ plugins_to_deploy = <<>>
    /\ ci = 1
    /\ velocity_build = None
    /\ compatibility_issues = <<>>
    /\ compatible = "unset"
    /\ pi = 1
    /\ si = 1
    /\ success_count = 0
    /\ deployment_success = <<>>
    /\ probe_stdout = ""
    /\ ri = 1
    /\ trace = <<>>
    /\ rs = 1
    /\ backup_files = <<>>
    /\ bi = 1
    /\ rollback_success = <<>>
    /\ rk = 1
    /\ inconsistencies = EmptyMap
    /\ inventory = SERVERS
    /\ lookups = NoLookups
    /\ procs = <<>>
    /\ local_fs \in LocalStates
    /\ args = <<>>
    /\ ret = <<>>

NextPreflight ==
    \/ preflight_ssh
    \/ preflight_disk
    \/ preflight_downloads_dir
    \/ preflight_state_file
    \/ preflight_return

SpecPreflight == InitPreflight /\ [][NextPreflight]_vars

\* the outcome of a check of the run
OutcomeOf(check) == trace[CHOOSE k \in CallsOf(check) : TRUE].outcome

\* the hard conditions of the run
SshFailed == OutcomeOf("check_ssh") /= "ok"

DiskFull == OutcomeOf("check_disk").kind = "percent" /\ OutcomeOf("check_disk").pct >= 90

DirNotWritable == ~OutcomeOf("check_downloads_dir")

\* C25: run_preflight_checks returns ok = true exactly when none of the
\* three hard conditions holds (reachability probe failed, reported volume
\* utilization of 90% or more, staging directory not writable); a missing
\* deployment-state file does not make ok false and adds no issue.
C25_PreflightOkIff ==
    pc = "done" =>
        /\ ret[1] <=> ~(SshFailed \/ DiskFull \/ DirNotWritable)
        /\ Range(preflight_issues) \subseteq {"ssh", "disk", "downloads_dir"}
        /\ Range(ret[2]) \subseteq {"ssh", "disk", "downloads_dir"}

W_C25_PreflightOkIff ==
    /\ pc = "done"
    /\ ret[1]
    /\ stateFile.kind = "missing"
    /\ OutcomeOf("check_disk").kind = "percent"

\* C26: every run of run_preflight_checks executes all four checks, in
\* order, whatever the earlier ones found or raised, and returns one issue
\* for each hard check that failed in the run.
C26_PreflightCollectsAll ==
    pc = "done" =>
        /\ [k \in DOMAIN trace |-> trace[k].op]
             = <<"check_ssh", "check_disk", "check_downloads_dir", "check_state_file">>
        /\ Len(preflight_issues) =
              (IF SshFailed THEN 1 ELSE 0) + (IF DiskFull THEN 1 ELSE 0)
              + (IF DirNotWritable THEN 1 ELSE 0)
        /\ "ssh" \in Range(preflight_issues) <=> SshFailed
        /\ "disk" \in Range(preflight_issues) <=> DiskFull
        /\ "downloads_dir" \in Range(preflight_issues) <=> DirNotWritable
        /\ ~ret[1] => ret[2] = preflight_issues

W_C26_PreflightCollectsAll ==
    /\ pc = "done"
    /\ OutcomeOf("check_ssh") = "exception"
    /\ OutcomeOf("check_disk").kind = "percent"
    /\ Len(ret[2]) = 3

----------------------------------------------------------------------------
(* api_clients.py normalize_version on arbitrary version strings           *)

\* the pieces version strings are put together from
Chunks == {<<"-">>, <<"b">>, <<"u", "i", "l", "d">>, BuildWord, <<"1">>, <<"x">>}

\* the longest version string, in pieces
MaxChunks == 4

\* the version strings of at most n pieces
RECURSIVE VersionStrings(_)
VersionStrings(n) ==
    IF n = 0 THEN {<<>>}
    ELSE LET shorter == VersionStrings(n - 1) IN
         shorter \cup {v \o c : v \in shorter, c \in Chunks}

\* one call of PluginDownloader.normalize_version(version)
normalize ==
    /\ pc = "normalize"
    /\ ret' = <<normalize_version(args.version)>>
    /\ pc' = "done"
    /\ UNCHANGED <<preflightFrame, preflight_ok, preflight_issues, result, local_fs, trace>>

InitNormalize ==
    /\ dry_run = FALSE
    /\ force = FALSE
    /\ manifest = ManifestInit
    /\ stateFile = MissingFile
    /\ stateFile0 = stateFile
    /\ deployment_state = load_deployment_state(stateFile)
    /\ updates_available = EmptyMap
    /\ downloads = <<>>
    /\ remote = RemoteInit
    /\ pc = "normalize"
    /\ result = "running"
    /\ preflight_ok = "unset"
    /\ preflight_issues = <<>>
    /\ plugins_to_deploy = <<>>
    /\ ci = 1
    /\ velocity_build = None
    /\ compatibility_issues = <<>>
    /\ compatible = "unset"
    /\ pi = 1
    /\ si = 1
    /\ success_count = 0
    /\ deployment_success = <<>>
    /\ probe_stdout = ""
    /\ ri = 1
    /\ trace = <<>>
    /\ rs = 1
    /\ backup_files = <<>>
    /\ bi = 1
    /\ rollback_success = <<>>
    /\ rk = 1
    /\ inconsistencies = EmptyMap
    /\ inventory = SERVERS
    /\ lookups = NoLookups
    /\ procs = <<>>
    /\ local_fs = LocalInit
    /\ \E v \in VersionStrings(MaxChunks) : args = [version |-> v]
    /\ ret = <<>>

NextNormalize == normalize

SpecNormalize == InitNormalize /\ [][NextNormalize]_vars

\* C27: normalize_version is idempotent: normalizing a normalized version
\* string changes nothing.
C27_NormalizeIdempotent ==
    pc = "done" => normalize_version(ret[1]) = ret[1]

\* a string with two '-build<digits>' was normalized
W_C27_NormalizeIdempotent ==
    /\ pc = "done"
    /\ Len(ret[1]) + 8 = Len(args.version)

----------------------------------------------------------------------------
(* updater.py check_for_updates: which plugins become candidates           *)

\* C28: after check_for_updates a managed plugin is a candidate exactly
\* when the manifest has a non-empty version for it, its source lookup
\* returned a result, and the normalized versions differ or force is set;
\* the candidate carries the manifest's version as current and the
\* source's version as latest.
C28_CandidateIff ==
    pc /= "check" =>
        \A p \in PluginNames :
            /\ p \in DOMAIN updates_available <=>
                  /\ manifest[p] /= NoVersion
                  /\ lookups[p] /= NoInfo
                  /\ \/ normalize_version(manifest[p]) /= normalize_version(lookups[p].version)
                     \/ force
            /\ p \in DOMAIN updates_available =>
                  /\ updates_available[p].current = manifest[p]
                  /\ updates_available[p].latest = lookups[p].version

\* without force, '2-build9' in the manifest against '2-b9' from the source
\* is no candidate, while another plugin of the same check is
W_C28_CandidateIff ==
    /\ pc /= "check"
    /\ ~force
    /\ manifest["Geyser-Velocity"] = <<"2", "-", "b", "u", "i", "l", "d", "9">>
    /\ lookups["Geyser-Velocity"].version = <<"2", "-", "b", "9">>
    /\ "Geyser-Velocity" \notin DOMAIN updates_available
    /\ "ViaVersion" \in DOMAIN updates_available

\* the plugins a finished live run deployed to at least one server
DeployedPlugins == {p \in PluginNames : SuccessCount(p) > 0}

\* C29: after a live run that returns success, the manifest holds the
\* deployed version of every plugin the run deployed, so the next
\* check_for_updates without force against the same source answer has no
\* candidate for it.
CE_C29_ManifestIsBaseline ==
    (pc = "done" /\ result = "True" /\ ~dry_run) =>
        \A p \in DeployedPlugins :
            /\ manifest[p] = updates_available[p].latest
            /\ ~IsCandidate(manifest[p], lookups[p].version, FALSE)

----------------------------------------------------------------------------
(* cli.py main: the exit code                                              *)

\* the store_true options of the parser (lines 344-357)
CliFlags == {"init", "discover", "check", "download", "deploy", "rollback", "audit",
             "status", "force", "dry_run"}

\* the options that select a command (line 365)
ActionFlags == {"init", "discover", "check", "download", "deploy", "rollback", "audit",
                "status"}

\* the exit code of an interrupted run
ExitInterrupted == 130

\* the parameters of MinecraftPluginUpdater.__init__ and the keywords main
\* passes to it
UpdaterParams == {"dry_run", "force"}

UpdaterKeywords == {"dry_run", "force", "config"}

\* a call with a keyword the function does not have raises TypeError
Accepts(params, keywords) == keywords \subseteq params

cliFrame == <<dry_run, force, manifest, stateFile, stateFile0, deployment_state,
              updates_available, downloads, remote, plugins_to_deploy, ci,
              velocity_build, compatibility_issues, compatible, loopVars, rs,
              backup_files, bi, rollback_success, rk, inconsistencies, inventory,
              lookups, preflight_ok, preflight_issues, result, local_fs, procs>>

\* 'Default to check mode if no action specified' (lines 364-367)
main_parse ==
    /\ pc = "cli_parse"
    /\ args' = IF \E f \in ActionFlags : args[f]
               THEN args
               ELSE [args EXCEPT !["check"] = TRUE, !["dry_run"] = TRUE]
    /\ pc' = "cli_dispatch"
    /\ UNCHANGED <<cliFrame, ret, trace>>

\* 'if args.init: return run_init_wizard()' (lines 371-372)
main_init ==
    /\ pc = "cli_dispatch"
    /\ args["init"]
    /\ \E code \in {0, 1} :
         /\ ret' = <<code>>
         /\ trace' = Append(trace, Call("run_init_wizard", "-", "-", code = 0))
    /\ pc' = "done"
    /\ UNCHANGED <<cliFrame, args>>

\* 'if args.discover: return run_discovery()' (lines 375-376)
main_discover ==
    /\ pc = "cli_dispatch"
    /\ ~args["init"]
    /\ args["discover"]
    /\ \E code \in {0, 1} :
         /\ ret' = <<code>>
         /\ trace' = Append(trace, Call("run_discovery", "-", "-", code = 0))
    /\ pc' = "done"
    /\ UNCHANGED <<cliFrame, args>>

\* load_config and validate_config (lines 378-388)
main_config ==
    /\ pc = "cli_dispatch"
    /\ ~args["init"]
    /\ ~args["discover"]
    /\ \E is_valid \in BOOLEAN :
         /\ trace' = Append(trace, Call("validate_config", "-", "-", is_valid))
         /\ IF is_valid
            THEN /\ pc' = IF args["rollback"] THEN "cli_rollback" ELSE "cli_updater"
                 /\ ret' = ret
            ELSE /\ pc' = "done"
                 /\ ret' = <<1>>
    /\ UNCHANGED <<cliFrame, args>>

\* '--rollback mode' (lines 390-398)
main_rollback ==
    /\ pc = "cli_rollback"
    /\ \E rolled_back \in BOOLEAN :
         /\ trace' = Append(trace, Call("rollback_deployment", "-", "-", rolled_back))
         /\ ret' = <<IF rolled_back THEN 0 ELSE 1>>
    /\ pc' = "done"
    /\ UNCHANGED <<cliFrame, args>>

\* 'MinecraftPluginUpdater(dry_run=..., force=..., config=config)' (line 401)
\* raises TypeError, 'except Exception' returns 1 (lines 430-432); had the
\* call been accepted, the audit, status and update commands would follow
\* (lines 403-425)
main_updater ==
    /\ pc = "cli_updater"
    /\ trace' = Append(trace, Call("MinecraftPluginUpdater", "-", "-",
                                   Accepts(UpdaterParams, UpdaterKeywords)))
    /\ IF Accepts(UpdaterParams, UpdaterKeywords)
       THEN /\ pc' = "cli_command"
            /\ ret' = ret
       ELSE /\ pc' = "done"
            /\ ret' = <<1>>
    /\ UNCHANGED <<cliFrame, args>>

\* 'except KeyboardInterrupt: return 130' (lines 427-429), anywhere in the try
main_interrupt ==
    /\ pc \in {"cli_dispatch", "cli_rollback", "cli_updater"}
    /\ trace' = Append(trace, Call("KeyboardInterrupt", "-", "-", FALSE))
    /\ ret' = <<ExitInterrupted>>
    /\ pc' = "done"
    /\ UNCHANGED <<cliFrame, args>>

InitCli ==
    /\ dry_run = FALSE
    /\ force = FALSE
    /\ manifest = ManifestInit
    /\ stateFile = MissingFile
    /\ stateFile0 = stateFile
    /\ deployment_state = load_deployment_state(stateFile)
    /\ updates_available = EmptyMap
    /\ downloads = <<>>
    /\ remote = RemoteInit
    /\ pc = "cli_parse"
    /\ result = "running"
    /\ preflight_ok = "unset"
    /\ preflight_issues = <<>>
    /\ plugins_to_deploy = <<>>
    /\ ci = 1
    /\ velocity_build = None
    /\ compatibility_issues = <<>>
    /\ compatible = "unset"
    /\ pi = 1
    /\ si = 1
    /\ success_count = 0
    /\ deployment_success = <<>>
    /\ probe_stdout = ""
    /\ ri = 1
    /\ trace = <<>>
    /\ rs = 1
    /\ backup_files = <<>>
    /\ bi = 1
    /\ rollback_success = <<>>
    /\ rk = 1
    /\ inconsistencies = EmptyMap
    /\ inventory = SERVERS
    /\ lookups = NoLookups
    /\ procs = <<>>
    /\ local_fs = LocalInit
    /\ args \in [CliFlags -> BOOLEAN]
    /\ ret = <<>>

NextCli ==
    \/ main_parse
    \/ main_init
    \/ main_discover
    \/ main_config
    \/ main_rollback
    \/ main_updater
    \/ main_interrupt

SpecCli == InitCli /\ [][NextCli]_vars

\* the run had a valid configuration and was not interrupted
ValidRun ==
    /\ \E k \in CallsOf("validate_config") : trace[k].ok
    /\ CallsOf("KeyboardInterrupt") = {}

\* C30: with a valid configuration main returns 0 exactly when the selected
\* command succeeds: status returns 0, rollback returns 0 exactly when
\* rollback_deployment returned True; an interrupted run returns 130.
CE_C30_ExitCodeIffSuccess ==
    pc = "done" =>
        /\ (ValidRun /\ args["status"] /\ ~args["rollback"] /\ ~args["audit"])
              => ret = <<0>>
        /\ (ValidRun /\ args["rollback"])
              => (ret = <<0>> <=> \E k \in CallsOf("rollback_deployment") : trace[k].ok)
        /\ CallsOf("KeyboardInterrupt") /= {} => ret = <<ExitInterrupted>>

----------------------------------------------------------------------------
(* updater.py deploy_all_updates: sibling pairs, retries, verification     *)

\* the (server, plugin) pairs for which deploy_to_server was entered
AttemptedPairs == {<<trace[k].server, trace[k].plugin>> : k \in CallsOf("deploy_to_server")}

\* the (server, plugin) pairs the run has to deploy
WantedPairs ==
    UNION {{<<s, p>> : s \in Range(target_servers(p))} : p \in Range(downloads)}

\* C31: a failed deploy_to_server fails its own pair only: once the deploy
\* loop of a run has started, deploy_to_server is attempted for every
\* target server of every plugin in downloads before the run returns.
CE_C31_SiblingsStillAttempted ==
    (pc = "done" /\ CallsOf("deploy_to_server") /= {}) => WantedPairs \subseteq AttemptedPairs

\* the operations the workflow must not repeat
OnceOps == {"download", "deploy_to_server", "restart_server"}

\* C32: nothing is retried: in one run each plugin is downloaded at most
\* once, deploy_to_server is entered at most once for each (server, plugin)
\* pair and restart_server is called at most once for each server, whatever
\* the outcomes.
C32_NoRetry ==
    \A k \in DOMAIN trace :
        trace[k].op \in OnceOps =>
            \A j \in 1..(k - 1) :
                ~ /\ trace[j].op = trace[k].op
                  /\ trace[j].server = trace[k].server
                  /\ trace[j].plugin = trace[k].plugin

\* a finished run in which a download failed and a pair failed to deploy
W_C32_NoRetry ==
    /\ pc = "done"
    /\ \E k \in CallsOf("download") : ~trace[k].ok
    /\ \E k \in CallsOf("deploy_return") : ~trace[k].ok

----------------------------------------------------------------------------
(* updater.py deploy_all_updates with the results of verify_plugin_loaded  *)

\* the (server, plugin) pairs of deployment_success
VerifiedPairs(ds) ==
    UNION {{<<ds[i].server, ds[i].plugins[k]>> : k \in DOMAIN ds[i].plugins} : i \in DOMAIN ds}

\* the verify_plugin_loaded calls of lines 273-277, in order; the call
\* returns False for the pairs in unverified (marker not found, probe error
\* or timeout)
RECURSIVE VerifyResults(_, _, _)
VerifyResults(ds, i, unverified) ==
    IF i > Len(ds) THEN <<>>
    ELSE [k \in 1..Len(ds[i].plugins) |->
            Call("verify_plugin_loaded", ds[i].server, ds[i].plugins[k],
                 <<ds[i].server, ds[i].plugins[k]>> \notin unverified)]
         \o VerifyResults(ds, i + 1, unverified)

\* fault variant: a plugin that is not verified ends the run
VerifyAborts_OnFailure(ok) == ~ok

\* line 277: the value verify_plugin_loaded returns is not used
VerifyAborts(ok) == FALSE

\* all restarts succeeded (lines 266-277): a dry run skips the block, a live
\* run sleeps 30 seconds and calls verify_plugin_loaded for every pair
verify_deployment ==
    /\ pc = "restart"
    /\ ri > Len(deployment_success)
    /\ IF dry_run
       THEN pc' = "done" /\ result' = "True" /\ trace' = trace
       ELSE \E unverified \in SUBSET VerifiedPairs(deployment_success) :
              LET calls == VerifyResults(deployment_success, 1, unverified) IN
              /\ trace' = trace \o <<Call("sleep", "-", "-", TRUE)>> \o calls
              /\ IF \E k \in DOMAIN calls : VerifyAborts(calls[k].ok)
                 THEN pc' = "done" /\ result' = "False"
                 ELSE pc' = "update_state" /\ result' = result
    /\ UNCHANGED <<otherVars, inputVars, stateFile, deployment_state, remote, gateVars, loopVars>>

\* what the sources answered in the run: a new ViaVersion and a new Geyser
VerifyLookups ==
    [p \in PluginNames |->
        CASE p = "ViaVersion" -> ModrinthInfo(<<"5", ".", "1">>, FixedName(p))
          [] p = "Geyser-Velocity" -> GeyserInfo("geyser", "velocity", <<"2">>, <<"1", "0">>)
          [] OTHER -> NoInfo]

\* the run after check_for_updates and download_all_updates, both plugins
\* downloaded
InitVerify ==
    /\ dry_run \in BOOLEAN
    /\ force = FALSE
    /\ manifest = ManifestInit
    /\ stateFile \in {MissingFile, FileOf("complete", StateDocInit)}
    /\ stateFile0 = stateFile
    /\ deployment_state = load_deployment_state(stateFile)
    /\ updates_available = CheckUpdates(ManifestInit, VerifyLookups, FALSE)
    /\ downloads = SelectFrom(PluginOrder, 1, DOMAIN updates_available)
    /\ remote = RemoteInit
    /\ pc = "preflight"
    /\ result = "running"
    /\ preflight_ok = "unset"
    /\ preflight_issues = <<>>
    /\ plugins_to_deploy = <<>>
    /\ ci = 1
    /\ velocity_build = None
    /\ compatibility_issues = <<>>
    /\ compatible = "unset"
    /\ pi = 1
    /\ si = 1
    /\ success_count = 0
    /\ deployment_success = <<>>
    /\ probe_stdout = ""
    /\ ri = 1
    /\ trace = DownloadCalls(DOMAIN updates_available, DOMAIN updates_available)
    /\ rs = 1
    /\ backup_files = <<>>
    /\ bi = 1
    /\ rollback_success = <<>>
    /\ rk = 1
    /\ inconsistencies = EmptyMap
    /\ inventory = SERVERS
    /\ lookups = VerifyLookups
    /\ procs = <<>>
    /\ local_fs = LocalInit
    /\ args = <<>>
    /\ ret = <<>>

NextVerify ==
    \/ run_preflight_checks
    \/ compat_skip
    \/ compat_check
    \/ compat_return
    \/ deploy_to_server
    \/ deploy_probe
    \/ deploy_backup
    \/ deploy_scp
    \/ deploy_perms
    \/ plugin_done
    \/ deploy_loop_done
    \/ restart_server
    \/ verify_deployment
    \/ update_deployment_state
    \/ save_open
    \/ save_flush
    \/ save_close
    \/ interrupt
    \/ commit_to_git

SpecVerify == InitVerify /\ [][NextVerify]_vars

\* the record of the pair of verify call k is in the deployment-state file
RecordWritten(k) ==
    NewRecord(trace[k].plugin, RunTime)
        \in RecordsOf(stateFile.doc, trace[k].server, trace[k].plugin)

\* C33: verification is soft and live-only: a live run that got as far as
\* verifying returns True whatever verify_plugin_loaded returned, and the
\* record of a verified or unverified pair is written exactly when its
\* server has an entry in the deployment state; a dry run neither waits
\* nor verifies.
C33_VerifyIsSoft ==
    /\ dry_run => CallsOf("sleep") = {} /\ CallsOf("verify_plugin_loaded") = {}
    /\ (pc = "done" /\ result /= "interrupted" /\ CallsOf("verify_plugin_loaded") /= {}) =>
          /\ result = "True"
          /\ \A k \in CallsOf("verify_plugin_loaded") :
                RecordWritten(k) <=> ServerRecorded(stateFile0.doc, trace[k].server)

\* a live run returned True and wrote the record of a pair whose
\* verification failed, next to a pair that was verified
W_C33_VerifyIsSoft ==
    /\ pc = "done"
    /\ result = "True"
    /\ \E k \in CallsOf("verify_plugin_loaded") : ~trace[k].ok /\ RecordWritten(k)
    /\ \E k \in CallsOf("verify_plugin_loaded") : trace[k].ok /\ RecordWritten(k)

----------------------------------------------------------------------------
(* deployment.py check_infrastructure_compatibility: the probe             *)

\* C34: the Velocity build probe is memoized: one run of
\* check_infrastructure_compatibility calls get_velocity_build_number at
\* most once, whether it returned a build number or None.
CE_C34_ProbeOnce ==
    Cardinality(CallsOf("get_velocity_build_number")) <= 1

----------------------------------------------------------------------------
(* updater.py: two orchestrator processes and one deployment-state file    *)

ProcIds == {1, 2}

\* one step of process q, for the history
RaceCall(op, q) == [op |-> op, proc |-> q]

\* deployment_success after plugin p went to all of its target servers
DeployedEverywhere(p) ==
    [i \in 1..Len(target_servers(p)) |-> [server |-> target_servers(p)[i], plugins |-> <<p>>]]

\* the plugins directories after that
RemoteWith(dirs, p) ==
    [s \in ServerNames |->
        IF s \in Range(target_servers(p))
        THEN MapPut(dirs[s], remote_jar_name(p), NewArtifact(p))
        ELSE dirs[s]]

\* fault variant: the save keeps the records of the file that the process
\* did not write itself
SavedDoc_Merged(memory, on_disk) ==
    [memory EXCEPT !.servers =
        [s \in DOMAIN memory.servers |->
            [memory.servers[s] EXCEPT !.deployed_plugins =
                LET both == @ \cup (IF s \in DOMAIN on_disk.servers
                                    THEN on_disk.servers[s].deployed_plugins ELSE {})
                IN {r \in both : \/ r.deployed_at = RunTime
                                 \/ \A r2 \in both : r2.plugin = r.plugin
                                                        => r2.deployed_at /= RunTime}]]]

\* save_deployment_state: json.dump(self.deployment_state, f) over the file
SavedDoc(memory, on_disk) == memory

raceFrame == <<dry_run, force, manifest, stateFile0, deployment_state, updates_available,
               downloads, pc, result, gateVars, loopVars, rs, backup_files, bi,
               rollback_success, rk, inconsistencies, inventory, lookups, local_fs,
               args, ret>>

\* MinecraftPluginUpdater.__init__ of process q loads the file
race_init(q) ==
    /\ procs[q].pc = "start"
    /\ procs' = [procs EXCEPT ![q].deployment_state = load_deployment_state(stateFile),
                              ![q].pc = "deploy"]
    /\ trace' = Append(trace, RaceCall("load_deployment_state", q))
    /\ UNCHANGED <<raceFrame, stateFile, remote>>

\* the deploy loop and the restarts of process q succeed for one plugin
race_deploy(q) ==
    /\ procs[q].pc = "deploy"
    /\ \E p \in DOMAIN updates_available :
         /\ procs' = [procs EXCEPT ![q].deployment_success = DeployedEverywhere(p),
                                   ![q].pc = "update_state"]
         /\ remote' = RemoteWith(remote, p)
    /\ trace' = Append(trace, RaceCall("deploy", q))
    /\ UNCHANGED <<raceFrame, stateFile>>

\* update_deployment_state of process q, on its in-memory copy
race_update(q) ==
    /\ procs[q].pc = "update_state"
    /\ procs' = [procs EXCEPT ![q].deployment_state =
                                  RecordServers(@, procs[q].deployment_success, 1, RunTime),
                              ![q].pc = "save"]
    /\ trace' = Append(trace, RaceCall("update_deployment_state", q))
    /\ UNCHANGED <<raceFrame, stateFile, remote>>

\* save_deployment_state of process q
race_save(q) ==
    /\ procs[q].pc = "save"
    /\ stateFile' = FileOf("complete", SavedDoc(procs[q].deployment_state, stateFile.doc))
    /\ procs' = [procs EXCEPT ![q].pc = "done"]
    /\ trace' = Append(trace, RaceCall("save_deployment_state", q))
    /\ UNCHANGED <<raceFrame, remote>>

\* two processes are started after the same check and download
InitRace ==
    /\ dry_run = FALSE
    /\ force = FALSE
    /\ manifest = ManifestInit
    /\ stateFile \in {MissingFile, FileOf("complete", StateDocInit)}
    /\ stateFile0 = stateFile
    /\ deployment_state = load_deployment_state(stateFile)
    /\ updates_available = CheckUpdates(ManifestInit, VerifyLookups, FALSE)
    /\ downloads = SelectFrom(PluginOrder, 1, DOMAIN updates_available)
    /\ remote = RemoteInit
    /\ pc = "race"
    /\ result = "running"
    /\ preflight_ok = "unset"
    /\ preflight_issues = <<>>
    /\ plugins_to_deploy = <<>>
    /\ ci = 1
    /\ velocity_build = None
    /\ compatibility_issues = <<>>
    /\ compatible = "unset"
    /\ pi = 1
    /\ si = 1
    /\ success_count = 0
    /\ deployment_success = <<>>
    /\ probe_stdout = ""
    /\ ri = 1
    /\ trace = DownloadCalls(DOMAIN updates_available, DOMAIN updates_available)
    /\ rs = 1
    /\ backup_files = <<>>
    /\ bi = 1
    /\ rollback_success = <<>>
    /\ rk = 1
    /\ inconsistencies = EmptyMap
    /\ inventory = SERVERS
    /\ lookups = VerifyLookups
    /\ procs = [q \in ProcIds |->
                  [pc |-> "start", deployment_state |-> EmptyDoc, deployment_success |-> <<>>]]
    /\ local_fs = LocalInit
    /\ args = <<>>
    /\ ret = <<>>

NextRace ==
    \/ \E q \in ProcIds : race_init(q)
    \/ \E q \in ProcIds : race_deploy(q)
    \/ \E q \in ProcIds : race_update(q)
    \/ \E q \in ProcIds : race_save(q)

SpecRace == InitRace /\ [][NextRace]_vars

\* position in the history of the step op of process q (0 if not taken)
StepOf(op, q) ==
    IF \E k \in CallsOf(op) : trace[k].proc = q
    THEN CHOOSE k \in CallsOf(op) : trace[k].proc = q
    ELSE 0

\* both processes loaded the file before either of them saved it
BothLoadedFirst ==
    \A q, r \in ProcIds :
        /\ StepOf("load_deployment_state", q) > 0
        /\ StepOf("save_deployment_state", r) > 0
        /\ StepOf("load_deployment_state", q) < StepOf("save_deployment_state", r)

\* the process that saved first
FirstFinisher ==
    CHOOSE q \in ProcIds :
        \A r \in ProcIds : StepOf("save_deployment_state", q) <= StepOf("save_deployment_state", r)

\* the pairs whose records process q wrote into its copy
RecordedPairs(q) ==
    {sp \in VerifiedPairs(procs[q].deployment_success) : ServerRecorded(stateFile0.doc, sp[1])}

\* the final file has the record that the run wrote for pair sp
InFinalFile(sp) == NewRecord(sp[2], RunTime) \in RecordsOf(stateFile.doc, sp[1], sp[2])

\* C35: without locking, when two processes both load the state file before
\* either saves, deploy different pairs and each write their whole copy,
\* the final file is the second finisher's copy and holds none of the
\* records that only the first finisher wrote.
C35_LostUpdate ==
    ((\A q \in ProcIds : procs[q].pc = "done") /\ BothLoadedFirst) =>
        LET first == FirstFinisher
            last == CHOOSE q \in ProcIds : q /= first
        IN /\ stateFile.doc = procs[last].deployment_state
           /\ \A sp \in RecordedPairs(first) \ RecordedPairs(last) : ~InFinalFile(sp)
           /\ \A sp \in RecordedPairs(last) : InFinalFile(sp)

\* both processes are done, they deployed different plugins, and a record
\* of the first finisher is missing from the file
W_C35_LostUpdate ==
    /\ \A q \in ProcIds : procs[q].pc = "done"
    /\ BothLoadedFirst
    /\ RecordedPairs(1) \cap RecordedPairs(2) = {}
    /\ \E sp \in RecordedPairs(FirstFinisher) : ~InFinalFile(sp)

----------------------------------------------------------------------------
(* deployment.py rollback_deployment: which backups, in which order        *)

\* the restore commands of the run on server s, as positions of the history
RestoresOn(s) == {k \in CallsOf("restore") : trace[k].server = s}

\* the age rank of the backup of restore command k
RestoredStamp(k) == StampRank(BackupStampOf(trace[k].backup))

\* C36: on each server rollback_deployment processes at most 10 backups,
\* newest first by time stamp, and once it is done with the servers no
\* backup it left out is newer than one it processed, also when the
\* backups belong to several plugin files.
CE_C36_TenLatestNewestFirst ==
    \A s \in ServerNames :
        /\ Cardinality(RestoresOn(s)) <= RollbackLimit
        /\ \A j, k \in RestoresOn(s) : j < k => RestoredStamp(j) >= RestoredStamp(k)
        /\ (pc = "done" /\ result = "True") =>
              \A b \in BackupsIn(remote[s]) \ {trace[k].backup : k \in RestoresOn(s)} :
                  \A k \in RestoresOn(s) : StampRank(BackupStampOf(b)) <= RestoredStamp(k)

----------------------------------------------------------------------------
(* cli.py run_update_workflow                                              *)

\* check_only, download_only and deploy as main derives them from --check,
\* --download and --deploy (lines 421-423)
WorkflowModes ==
    {[check_only |-> c /\ ~d /\ ~y, download_only |-> d /\ ~y, deploy |-> y] :
        c, d, y \in BOOLEAN}

\* fault variant: one download is enough to go on
AllDownloaded_Some(got, updates) == Len(got) > 0

\* 'if len(downloads) != len(updates): return 1' (lines 82-84)
AllDownloaded(got, updates) == Len(got) = Cardinality(DOMAIN updates)

wfFrame == <<dry_run, force, manifest, stateFile, stateFile0, deployment_state, remote,
             result, gateVars, loopVars, rs, backup_files, bi, rollback_success, rk,
             inconsistencies, inventory, local_fs, args, procs>>

\* Step 1 (lines 60-77): check_for_updates, then the returns for 'nothing
\* to do', check-only and dry-run
wf_check ==
    /\ pc = "wf_check"
    /\ \E answered \in SUBSET {p \in PluginNames : manifest[p] /= NoVersion} :
         /\ Cardinality(answered) <= MaxLookups
         /\ \E ans \in [answered -> AllLookupResults] :
              /\ \A p \in answered : ans[p] \in LookupResults(p)
              /\ LET src == [p \in PluginNames |-> IF p \in answered THEN ans[p] ELSE NoInfo]
                     updates == CheckUpdates(manifest, src, force)
                 IN /\ updates_available' = updates
                    /\ lookups' = src
                    /\ IF updates = EmptyMap \/ args.check_only \/ dry_run
                       THEN pc' = "done" /\ ret' = <<0>>
                       ELSE pc' = "wf_download" /\ ret' = ret
    /\ UNCHANGED <<wfFrame, downloads, trace>>

\* Step 2 (lines 79-99): download_all_updates, the abort when a download is
\* missing, the download-only return, and the call of deploy_all_updates
wf_download ==
    /\ pc = "wf_download"
    /\ \E fetched \in SUBSET (DOMAIN updates_available) :
         LET got == SelectFrom(PluginOrder, 1, fetched) IN
         /\ downloads' = got
         /\ trace' = trace \o DownloadCalls(DOMAIN updates_available, fetched)
         /\ IF ~AllDownloaded(got, updates_available)
            THEN pc' = "done" /\ ret' = <<1>>
            ELSE IF args.download_only \/ ~args.deploy
                 THEN pc' = "done" /\ ret' = <<0>>
                 ELSE pc' = "preflight" /\ ret' = ret
    /\ UNCHANGED <<wfFrame, updates_available, lookups>>

\* lines 96-105: the exit code after deploy_all_updates has returned
wf_return ==
    /\ pc = "done"
    /\ ret = <<>>
    /\ result \in {"True", "False"}
    /\ ret' = <<IF result = "True" THEN 0 ELSE 1>>
    /\ UNCHANGED <<wfFrame, updates_available, lookups, downloads, trace, pc>>

InitWorkflow ==
    /\ dry_run \in BOOLEAN
    /\ force \in BOOLEAN
    /\ manifest = ManifestInit
    /\ stateFile = FileOf("complete", StateDocInit)
    /\ stateFile0 = stateFile
    /\ deployment_state = load_deployment_state(stateFile)
    /\ updates_available = EmptyMap
    /\ downloads = <<>>
    /\ remote = RemoteInit
    /\ pc = "wf_check"
    /\ result = "running"
    /\ preflight_ok = "unset"
    /\ preflight_issues = <<>>
    /\ plugins_to_deploy = <<>>
    /\ ci = 1
    /\ velocity_build = None
    /\ compatibility_issues = <<>>
    /\ compatible = "unset"
    /\ pi = 1
    /\ si = 1
    /\ success_count = 0
    /\ deployment_success = <<>>
    /\ probe_stdout = ""
    /\ ri = 1
    /\ trace = <<>>
    /\ rs = 1
    /\ backup_files = <<>>
    /\ bi = 1
    /\ rollback_success = <<>>
    /\ rk = 1
    /\ inconsistencies = EmptyMap
    /\ inventory = SERVERS
    /\ lookups = NoLookups
    /\ procs = <<>>
    /\ local_fs = LocalInit
    /\ args \in WorkflowModes
    /\ ret = <<>>

NextWorkflow ==
    \/ wf_check
    \/ wf_download
    \/ run_preflight_checks
    \/ compat_skip
    \/ compat_check
    \/ compat_return
    \/ deploy_to_server
    \/ deploy_probe
    \/ deploy_backup
    \/ deploy_scp
    \/ deploy_perms
    \/ plugin_done
    \/ deploy_loop_done
    \/ restart_server
    \/ restart_done
    \/ update_deployment_state
    \/ save_open
    \/ save_flush
    \/ save_close
    \/ interrupt
    \/ commit_to_git
    \/ wf_return

SpecWorkflow == InitWorkflow /\ [][NextWorkflow]_vars

\* the operations of deploy_all_updates
DeployAllOps == {"run_preflight_checks", "compat_check", "get_velocity_build_number",
                 "compat_return", "deploy_to_server", "ssh_test", "ssh_cp", "scp",
                 "ssh_chown", "deploy_return", "restart_server", "docker_restart",
                 "verify_plugin_loaded", "save_deployment_state", "commit_to_git"}

\* C37: run_update_workflow calls deploy_all_updates only when every
\* candidate of check_for_updates was downloaded; when a download failed it
\* returns 1 and nothing of deploy_all_updates (preflight, compatibility
\* check, deployment, restart) has run.
C37_DeployOnlyAfterAllDownloads ==
    /\ (\E k \in DOMAIN trace : trace[k].op \in DeployAllOps) =>
          /\ \A p \in DOMAIN updates_available : p \in Range(downloads)
          /\ \A k \in CallsOf("download") : trace[k].ok
    /\ (\E k \in CallsOf("download") : ~trace[k].ok) =>
          /\ pc = "done"
          /\ ret = <<1>>
          /\ \A k \in DOMAIN trace : trace[k].op \notin DeployAllOps
          /\ remote = RemoteInit
          /\ stateFile = stateFile0

\* a deploy run in which one of two downloads failed
W_C37_DeployOnlyAfterAllDownloads ==
    /\ args.deploy
    /\ ret = <<1>>
    /\ \E k \in CallsOf("download") : ~trace[k].ok
    /\ \E k \in CallsOf("download") : trace[k].ok

----------------------------------------------------------------------------
(* dry-run mode: deployment.py 130-134, 177-179, 243-245; updater.py 82-90   *)

\* in a dry run nothing on the servers, no backup, no restart and no file of
\* the tool is changed
DryRunTouchesNothing ==
    /\ remote = RemoteInit
    /\ stateFile = stateFile0
    /\ manifest = ManifestInit
    /\ CallsOf("docker_restart") = {}
    /\ CallsOf("scp") = {} /\ CallsOf("ssh_cp") = {}

\* C38: in dry-run mode no remote plugin file is changed, no backup is
\* created, no server is restarted, neither the manifest nor the
\* deployment-state file is written, and deploy_all_updates,
\* rollback_deployment, restart_server and the save operations all report
\* success.
CE_C38_DryRunNoOpSuccess ==
    dry_run =>
        /\ DryRunTouchesNothing
        /\ result /= "False"

\* the frame half on its own
DryRunFrame == dry_run => DryRunTouchesNothing

----------------------------------------------------------------------------
(* updater.py deploy_all_updates: the restarts come after the deploy loop   *)

DeployStepOps == {"deploy_to_server", "deploy_return"}

\* the deploy step of pair sp has returned before position k of the history
DeployedBefore(sp, k) ==
    \E j \in 1..(k - 1) :
        /\ trace[j].op = "deploy_return"
        /\ trace[j].server = sp[1]
        /\ trace[j].plugin = sp[2]

\* C39: when a server is restarted, deploy_to_server has returned for every
\* plugin of downloads on every one of its target servers, no deploy step
\* follows, and the server is not restarted a second time, however many
\* plugins it received.
C39_RestartAfterAllDeploys ==
    \A k \in DOMAIN trace :
        trace[k].op = "restart_server" =>
            /\ \A sp \in WantedPairs : DeployedBefore(sp, k)
            /\ \A j \in (k + 1)..Len(trace) :
                 /\ trace[j].op \notin DeployStepOps
                 /\ ~(trace[j].op = "restart_server" /\ trace[j].server = trace[k].server)

\* a finished run in which one server received two plugins and was
\* restarted, and so was another server
W_C39_RestartAfterAllDeploys ==
    /\ pc = "done"
    /\ result = "True"
    /\ \E i \in DOMAIN deployment_success :
         /\ Len(deployment_success[i].plugins) >= 2
         /\ \E k \in CallsOf("restart_server") : trace[k].server = deployment_success[i].server
    /\ Cardinality(CallsOf("restart_server")) >= 2

----------------------------------------------------------------------------
(* updater.py update_deployment_state: what it leaves alone                *)

\* a record of a plugin that is not in the catalog, entered by hand
UnmanagedRecord ==
    [plugin |-> "WorldEdit", version |-> <<"7", ".", "3">>, deployed_at |-> InitTime,
     deployed_by |-> "operator", sha256 |-> <<"unknown">>,
     previous_version |-> <<"7", ".", "2">>, note |-> "Manual install"]

\* a deployment-state.json whose servers also carry the optional
\* 'infrastructure' entry (read by show_status) and an unmanaged plugin
StateDocRich ==
    [last_updated |-> InitTime,
     servers |->
        [s \in DOMAIN StateDocInit.servers |->
            [platform |-> ServerConfig(s).platform,
             uuid |-> ServerConfig(s).uuid,
             infrastructure |-> [name |-> ServerConfig(s).platform,
                                 version |-> <<"3", ".", "4">>, deployed_at |-> InitTime],
             deployed_plugins |->
                StateDocInit.servers[s].deployed_plugins \cup {UnmanagedRecord}]]]

\* what the sources answered in the check_for_updates before
RecordLookups ==
    {[p \in PluginNames |->
        IF p \in answered
        THEN CASE p = "ViaVersion" -> ModrinthInfo(<<"5", ".", "1">>, FixedName(p))
               [] p = "Geyser-Velocity" -> GeyserInfo("geyser", "velocity", <<"2">>, <<"1", "0">>)
               [] OTHER -> GeyserInfo("floodgate", "velocity", <<"2">>, <<"1", "0">>)
        ELSE NoInfo] :
      answered \in SUBSET {"ViaVersion", "Geyser-Velocity", "floodgate-velocity"}}

\* the (server, plugin) pairs a run can have deployed
RecordPairs ==
    UNION {{<<s, p>> : s \in Range(target_servers(p))} :
              p \in {"ViaVersion", "Geyser-Velocity", "floodgate-velocity"}}

\* deployment_success after the deploy loop succeeded for exactly pairs
RECURSIVE TrackAll(_, _, _, _)
TrackAll(ds, i, j, pairs) ==
    IF i > Len(PluginOrder) THEN ds
    ELSE IF j > Len(target_servers(PluginOrder[i])) THEN TrackAll(ds, i + 1, 1, pairs)
    ELSE LET s == target_servers(PluginOrder[i])[j]
             p == PluginOrder[i]
         IN TrackAll(IF <<s, p>> \in pairs THEN TrackSuccess(ds, s, p) ELSE ds,
                     i, j + 1, pairs)

InitRecord ==
    /\ dry_run = FALSE
    /\ force = FALSE
    /\ manifest = ManifestInit
    /\ stateFile \in {MissingFile, FileOf("complete", StateDocInit), FileOf("complete", StateDocRich)}
    /\ stateFile0 = stateFile
    /\ deployment_state = load_deployment_state(stateFile)
    /\ lookups \in RecordLookups
    /\ updates_available = CheckUpdates(ManifestInit, lookups, FALSE)
    /\ \E pairs \in SUBSET RecordPairs :
         /\ deployment_success = TrackAll(<<>>, 1, 1, pairs)
         /\ downloads = SelectFrom(PluginOrder, 1, {sp[2] : sp \in pairs})
    /\ remote = RemoteInit
    /\ pc = "update_state"
    /\ result = "running"
    /\ preflight_ok = "unset"
    /\ preflight_issues = <<>>
    /\ plugins_to_deploy = <<>>
    /\ ci = 1
    /\ velocity_build = None
    /\ compatibility_issues = <<>>
    /\ compatible = "unset"
    /\ pi = 1
    /\ si = 1
    /\ success_count = 0
    /\ probe_stdout = ""
    /\ ri = 1
    /\ trace = <<>>
    /\ rs = 1
    /\ backup_files = <<>>
    /\ bi = 1
    /\ rollback_success = <<>>
    /\ rk = 1
    /\ inconsistencies = EmptyMap
    /\ inventory = SERVERS
    /\ procs = <<>>
    /\ local_fs = LocalInit
    /\ args = <<>>
    /\ ret = <<>>


NextRecord ==
    \/ update_deployment_state
    \/ save_open
    \/ save_flush
    \/ save_close
    \/ interrupt
    \/ commit_to_git

SpecRecord == InitRecord /\ [][NextRecord]_vars

\* the document update_deployment_state started from
OldDoc == load_deployment_state(stateFile0)

\* the (server, plugin) pairs deployed in the run
DeployedPairs ==
    UNION {{<<deployment_success[i].server, deployment_success[i].plugins[k]>> :
                k \in DOMAIN deployment_success[i].plugins} :
              i \in DOMAIN deployment_success}

\* every plugin name with a record in doc
RecordedNames(doc) ==
    UNION {{r.plugin : r \in doc.servers[s].deployed_plugins} : s \in DOMAIN doc.servers}

\* C40: update_deployment_state changes the records of the (server, plugin)
\* pairs deployed in the run and last_updated, nothing else: the servers of
\* the document, every field of a server other than deployed_plugins
\* (platform, uuid, infrastructure), and the record of every pair that was
\* not deployed, managed by the tool or not, are as they were.
C40_UpdateStateFrame ==
    pc /= "update_state" =>
        /\ DOMAIN deployment_state = DOMAIN OldDoc
        /\ DOMAIN deployment_state.servers = DOMAIN OldDoc.servers
        /\ \A s \in DOMAIN OldDoc.servers :
             /\ DOMAIN deployment_state.servers[s] = DOMAIN OldDoc.servers[s]
             /\ \A f \in DOMAIN OldDoc.servers[s] \ {"deployed_plugins"} :
                  deployment_state.servers[s][f] = OldDoc.servers[s][f]
             /\ \A p \in RecordedNames(OldDoc) \cup RecordedNames(deployment_state) :
                  <<s, p>> \notin DeployedPairs =>
                      RecordsOf(deployment_state, s, p) = RecordsOf(OldDoc, s, p)

\* the update wrote a new record on a server that also carries an
\* infrastructure entry, an unmanaged plugin and the record of a managed
\* plugin that was not deployed
W_C40_UpdateStateFrame ==
    /\ pc = "done"
    /\ \E s \in DOMAIN OldDoc.servers :
         /\ "infrastructure" \in DOMAIN OldDoc.servers[s]
         /\ UnmanagedRecord \in deployment_state.servers[s].deployed_plugins
         /\ \E p \in PluginNames :
              /\ <<s, p>> \in DeployedPairs
              /\ RecordsOf(deployment_state, s, p) /= RecordsOf(OldDoc, s, p)
         /\ \E p \in PluginNames :
              /\ <<s, p>> \notin DeployedPairs
              /\ RecordsOf(OldDoc, s, p) /= {}

====
